---- MODULE Spec2Model ----
(***************************************************************************)
(* Model of nobuhikosekiya/logstash-syslogserver:                          *)
(*   - the syslog forwarder  (src/log-sender/send_logs.py)                 *)
(*   - the ingestion verifier's watch loop (src/test_count_logs.py)        *)
(*   - the archive downloader (src/log-sender/download_logs.py)            *)
(*   - the end of the test runner (src/test_syslog_server.py)              *)
(* Strings are sequences of one-character strings, so that lower(),        *)
(* capitalize(), strip(), startswith(), split() and int() are computed.    *)
(* Spec is the forwarder started from its command line, SpecWatch the      *)
(* verifier's watch loop, SpecFormat one call of format_syslog_message,    *)
(* SpecDownload the downloader and SpecRunner the test runner from its     *)
(* monitoring step on. Each program runs while the others are idle.        *)
(***************************************************************************)
EXTENDS Integers, Sequences, FiniteSets, TLC

VARIABLES
  \* ---- forwarder (send_logs.py) ----
  args,              \* argparse result: loop, delete_flag, keep_given, keep_logs, protocol, log_type
  delete_after_send, \* main's local, line 159
  fs,                \* files that exist under log_dir
  scanOrder,         \* the order in which os.scandir enumerates the files
  pc,                \* position of main
  sock,              \* "none" | "open" | "closed"
  connects,          \* number of sock.connect calls
  log_files,         \* main's list of located files
  processed_files,   \* main's list of files to delete
  fileIdx,           \* index of the for loop over log_files
  lineIdx,           \* next line of the open file
  total_sent,
  total_lines,
  passNo,            \* number of passes of the while loop started
  visited,           \* files whose for-loop iteration started in this pass
  passLog,           \* send_log calls of this pass, in order: [file, line]
  attempts,          \* send_log calls of the whole run, per [file, line]
  lastSend,          \* outcome of the last send_log call: "none" | "ok" | "fail"
  removedByFwd,      \* files the forwarder removed with os.remove
  removeFailed,      \* files whose os.remove raised
  scanned,           \* files read to their end without an error in this pass
  faults,            \* faults of the environment so far, by kind: [env, io, send]
  exitCode,          \* -1 while running, 0 normal end, 1 sys.exit(1)
  \* ---- verifier (test_count_logs.py, watch loop) ----
  wargs,             \* interval, no_change_timeout, timeout (seconds)
  wpc,               \* "idle" | "tick" | "sleep" | "stopped"
  now,               \* wall clock, in units of 1/Res second
  current_time,      \* the clock as read at the top of the last iteration
  lastIncrease,      \* the clock as read at the last iteration whose count exceeded the one before
  start_time,
  last_change_time,
  prev_count,
  count,
  elapsed_seconds,
  seconds_since_last_change,
  stopReason,        \* "none" | "nochange" | "timeout"
  runLen,            \* number of consecutive polls, up to the last one, that returned count
  lastPoll,          \* how the last count_logs call went: "none" | "ok" | "missing" | "error"
  observed,          \* the value the last count_logs call returned (line 253), -1 before the first
  out,               \* the count on the last "log count" line printed, -1 when none was printed
  wexit,             \* exit status of the verifier: -1 while running, 0, or 1 (sys.exit(1))
  \* ---- one call of format_syslog_message (send_logs.py) ----
  fmt_line,          \* its line argument
  fmt_host,          \* its host argument, <<>> for None or ''
  formatted_line,    \* its result [kind, text], of kind "pending" before the call
  \* ---- downloader (download_logs.py) ----
  dargs,             \* argparse result: log_type, force_download
  existing_logs,     \* what check_existing_logs returns for output_dir
  dpc,               \* position of main: "idle" | "start" | "download" | "extract" | "done"
  archive,           \* archive_dir: file name -> "absent" | "complete" | "partial" | "errorbody"
  urls,              \* main's list of URLs
  urlIdx,            \* index of the for loop over urls
  archive_path,      \* what download_file returned last, <<>> when nothing yet
  getCalls,          \* number of requests.get calls, per URL
  outcome,           \* how download_file went, per URL: "none" | "cached" | a response
  returned,          \* what download_file did, per URL: "none" | "path" | "raised"
  extractCalls,      \* number of extract_tarfile calls, per URL
  extracted,         \* what extract_tarfile put into output_dir, per URL: "none" | "part" | "full"
  \* ---- test runner (test_syslog_server.py), from the monitoring on ----
  no_cleanup,        \* args.no_cleanup
  rpc,               \* position of main: "idle" | "monitor" | "final" | "judge" | "report" |
                     \* "cleanup" | "exit" | "exited" | "interrupted"
  containers,        \* "up" | "down"
  env_backup,        \* .env.backup exists
  env_restored,      \* .env.backup was moved back to .env
  downCalls,         \* number of "docker-compose down" runs
  printed_count,     \* the count the final test_count_logs.py run printed, -1 if it failed
  final_count_output,\* what run_command returned for it: <<>> for False, else its stdout
  final_count,
  test_result,       \* "UNSET" | "PASSED" | "FAILED"
  report,            \* test_report.md: [written, result, count]
  rexit,             \* exit status of the runner, -1 while running
  log_type,          \* --log-type
  use_logsdb,        \* --logsdb
  dotenv,            \* the content of .env
  dotenv_backup,     \* .env.backup: whether it exists, and its content
  saved_env,         \* the content of .env when backup_env_file copied it
  calls,             \* the commands and helpers the runner has called, with their results
  \* ---- start-up of setup_datastream.py and test_count_logs.py ----
  sprog,             \* which of the two programs runs
  senv,              \* os.environ after load_dotenv: ES_ENDPOINT, ELASTIC_ADMIN_API_KEY, ES_PORT
  scli,              \* --es-endpoint and --api-key (empty when not given)
  spc,               \* position of main
  es_endpoint,       \* main's local
  api_key,           \* main's local
  client,            \* "none" | "built"
  requests,          \* the requests sent to Elasticsearch, in order
  serror,            \* the exception that ended the run
  sexit              \* exit status, -1 while running

fvars == <<args, delete_after_send, fs, scanOrder, pc, sock, connects, log_files,
           processed_files, fileIdx, lineIdx, total_sent, total_lines, passNo,
           visited, scanned, passLog, attempts, lastSend, removedByFwd, removeFailed, faults, exitCode>>

wvars == <<wargs, wpc, now, current_time, lastIncrease, start_time, last_change_time, prev_count, count,
           elapsed_seconds, seconds_since_last_change, stopReason, runLen, lastPoll, observed, out, wexit>>

mvars == <<fmt_line, fmt_host, formatted_line>>

dvars == <<dargs, existing_logs, dpc, archive, urls, urlIdx, archive_path, getCalls, outcome,
           returned, extractCalls, extracted>>

rvars == <<no_cleanup, rpc, containers, env_backup, env_restored, downCalls, printed_count,
           final_count_output, final_count, test_result, report, rexit, log_type, use_logsdb,
           dotenv, dotenv_backup, saved_env, calls>>

svars == <<sprog, senv, scli, spc, es_endpoint, api_key, client, requests, serror, sexit>>

xvars == <<mvars, dvars, rvars, svars>>

vars == <<fvars, wvars, xvars>>

----------------------------------------------------------------------------
\* Bounds of the model
MaxPasses == 2
MaxFaults == 1      \* faults of the environment per forwarder run: a file removed by another
                    \* process, an open or read of an existing file that raises, a failed send
MaxNow == 28        \* the clock of the watch loop stops here (in clock units)
MaxPollDelay == 1   \* longest time a poll takes (in clock units)
MaxJitter == 1      \* longest oversleep of time.sleep (in clock units)
Res == 2            \* clock units per second
MaxLineLen == 3     \* longest line format_syslog_message is called with on its own

----------------------------------------------------------------------------
\* Generic helpers

Range(s) == {s[i] : i \in DOMAIN s}

NoDup(s) == \A i, j \in DOMAIN s : i # j => s[i] # s[j]

Perms(S) == {s \in [1..Cardinality(S) -> S] : \A i, j \in 1..Cardinality(S) : i # j => s[i] # s[j]}

Contains(s, x) == \E i \in DOMAIN s : s[i] = x

\* F applied to the value of v (v is evaluated once, then handed on as a value)
Eager(v, F(_)) == CHOOSE r \in {F(x) : x \in {v}} : TRUE

----------------------------------------------------------------------------
\* Python string methods, on sequences of characters

CasePairs == {<<"l", "L">>, <<"i", "I">>, <<"x", "X">>, <<"a", "A">>, <<"o", "O">>, <<"g", "G">>}

LowerChar(c) == IF \E p \in CasePairs : p[2] = c THEN (CHOOSE p \in CasePairs : p[2] = c)[1] ELSE c

UpperChar(c) == IF \E p \in CasePairs : p[1] = c THEN (CHOOSE p \in CasePairs : p[1] = c)[2] ELSE c

Lower(s) == [i \in DOMAIN s |-> LowerChar(s[i])]

Capitalize(s) == [i \in DOMAIN s |-> IF i = 1 THEN UpperChar(s[i]) ELSE LowerChar(s[i])]

StartsWith(s, prefix) == Len(prefix) <= Len(s) /\ SubSeq(s, 1, Len(prefix)) = prefix

EndsWith(s, suffix) == Len(suffix) <= Len(s) /\ SubSeq(s, Len(s) - Len(suffix) + 1, Len(s)) = suffix

IsSpace(c) == c \in {" ", "\t", "\n"}

RECURSIVE LStrip(_)
LStrip(s) == IF s # <<>> /\ IsSpace(Head(s)) THEN LStrip(Tail(s)) ELSE s

RECURSIVE RStrip(_)
RStrip(s) ==
  IF s # <<>> /\ IsSpace(s[Len(s)])
  THEN Eager(SubSeq(s, 1, Len(s) - 1), LAMBDA rest : RStrip(rest))
  ELSE s

Strip(s) == RStrip(LStrip(s))

\* s.split('.')[0]
RECURSIVE SplitDotFirst(_)
SplitDotFirst(s) == IF s = <<>> \/ Head(s) = "." THEN <<>> ELSE <<Head(s)>> \o SplitDotFirst(Tail(s))

----------------------------------------------------------------------------
\* The directory tree. A path is [dir, name]: dir = <<>> is log_dir itself,
\* otherwise the name of a subdirectory of log_dir.

DotLog == <<".", "l", "o", "g">>

ALL == <<"a", "l", "l">>

Path(d, n) == [dir |-> d, name |-> n]

P_li == Path(<<>>, <<"l", "i">> \o DotLog)

P_Li == Path(<<>>, <<"L", "i">> \o DotLog)

P_x == Path(<<>>, <<"x">> \o DotLog)

P_sub == Path(<<"L", "i">>, <<"l", "i", "2">> \o DotLog)

AllPaths == {P_li, P_Li, P_x, P_sub}

LogTypes == {ALL, <<"l", "i">>, <<"L", "i">>}

\* What each file holds, line by line (without the line terminator).
FileContent(p) ==
  CASE p = P_li  -> << <<"a">>, <<" ">>, <<"J", "a", "n", " ", "1">> >>
    [] p = P_Li  -> << <<>>, <<" ", "\t">> >>
    [] p = P_x   -> << <<"1", "a">> >>
    [] p = P_sub -> << <<"a", " ">>, <<"a">> >>
    [] OTHER     -> <<>>

----------------------------------------------------------------------------
\* glob

IsLogName(n) == EndsWith(n, DotLog) /\ Head(n) # "."

\* glob.glob(f"{dir}/*.log"): the matching files of one directory, in scan order
GlobDir(files, order, d) == SelectSeq(order, LAMBDA p : p \in files /\ p.dir = d /\ IsLogName(p.name))

\* the subdirectories of log_dir, in scan order
SubDirs(files, order) ==
  LET ds == SelectSeq(order, LAMBDA p : p \in files /\ p.dir # <<>>)
      firstAt(i) == \A j \in 1..(i - 1) : ds[j].dir # ds[i].dir
      idx == {i \in DOMAIN ds : firstAt(i)}
      RECURSIVE Build(_)
      Build(i) == IF i > Len(ds) THEN <<>>
                  ELSE (IF i \in idx THEN <<ds[i].dir>> ELSE <<>>) \o Build(i + 1)
  IN Build(1)

RECURSIVE ConcatDirs(_, _, _)
ConcatDirs(files, order, dirs) ==
  IF dirs = <<>> THEN <<>>
  ELSE GlobDir(files, order, Head(dirs)) \o ConcatDirs(files, order, Tail(dirs))

\* glob.glob(f"{log_dir}/**/*.log", recursive=True): log_dir itself, then its subdirectories
GlobRec(files, order) == GlobDir(files, order, <<>>) \o ConcatDirs(files, order, SubDirs(files, order))

\* glob.glob(f"{type_dir}/**/*.log", recursive=True)
GlobTypeDir(files, order, d) == GlobDir(files, order, d)

\* a scan lists log_dir first and then each subdirectory, one after the other
DirByDir(order) == \A i, j \in DOMAIN order : i < j => Len(order[i].dir) <= Len(order[j].dir)

DirExists(files, d) == \E p \in files : p.dir = d

----------------------------------------------------------------------------
\* find_log_files

\* "for x in candidates: if basename.lower().startswith(log_type_lower) and x not in log_files: append"
RECURSIVE AppendMatching(_, _, _)
AppendMatching(acc, candidates, typeLower) ==
  IF candidates = <<>> THEN acc
  ELSE LET x == Head(candidates)
           take == StartsWith(Lower(x.name), typeLower) /\ ~Contains(acc, x)
       IN Eager(IF take THEN Append(acc, x) ELSE acc,
                LAMBDA grown : AppendMatching(grown, Tail(candidates), typeLower))

UniqueKeepAll(s) == s

\* "Remove duplicates while preserving order"
RECURSIVE UniqueFrom(_, _)
UniqueFrom(acc, s) ==
  IF s = <<>> THEN acc
  ELSE Eager(IF Contains(acc, Head(s)) THEN acc ELSE Append(acc, Head(s)),
             LAMBDA grown : UniqueFrom(grown, Tail(s)))

Unique(s) == UniqueFrom(<<>>, s)

CandidatesAll(files, order) == GlobRec(files, order) \o GlobDir(files, order, <<>>)

CandidatesType(files, order, logType) ==
  LET typeLower == Lower(logType)
      typeDir == Capitalize(logType)
      main_log_file == Path(<<>>, logType \o DotLog)
      main_log_file_cap == Path(<<>>, Capitalize(logType) \o DotLog)
      s1 == IF DirExists(files, typeDir) THEN GlobTypeDir(files, order, typeDir) ELSE <<>>
      s2 == IF main_log_file \in files THEN Append(s1, main_log_file) ELSE s1
      s3 == IF main_log_file_cap \in files /\ main_log_file_cap # main_log_file
            THEN Append(s2, main_log_file_cap) ELSE s2
      s4 == AppendMatching(s3, GlobDir(files, order, <<>>), typeLower)
  IN AppendMatching(s4, GlobRec(files, order), typeLower)

find_log_files(files, order, logType) ==
  Unique(IF Lower(logType) = ALL THEN CandidatesAll(files, order)
         ELSE CandidatesType(files, order, logType))

----------------------------------------------------------------------------
\* format_syslog_message / the per-line decision of main

\* line[:6].find(' ') > 0
SpaceInFirstSix(line) == \E i \in 2..6 : i <= Len(line) /\ line[i] = " " /\ line[1] # " "

IsAlpha(c) == (\E p \in CasePairs : c \in {p[1], p[2]}) \/ c \in {"J", "n"}

\* datetime.datetime.now().strftime("%b %d %H:%M:%S"), as one token
Timestamp == <<"T">>

\* socket.gethostname()
LocalHostname == <<"h">>

HostTokenNoFallback(host) == host

\* "if not host: host = socket.gethostname()" (None and '' are both false)
HostToken(host) == IF host = <<>> THEN LocalHostname ELSE host

FormatWithoutBlankCheck(line, host) ==
  IF line # <<>> /\ SpaceInFirstSix(line) /\ IsAlpha(line[1]) THEN [kind |-> "asis", text |-> line]
  ELSE [kind |-> "stamped", text |-> Timestamp \o <<" ">> \o HostToken(host) \o <<" ">> \o line]

\* "none" (None), "asis" (returned unchanged) or "stamped" (timestamp host line)
format_syslog_message(line, host) ==
  IF Strip(line) = <<>> THEN [kind |-> "none", text |-> <<>>]
  ELSE IF SpaceInFirstSix(line) /\ IsAlpha(line[1]) THEN [kind |-> "asis", text |-> line]
  ELSE [kind |-> "stamped", text |-> Timestamp \o <<" ">> \o HostToken(host) \o <<" ">> \o line]

\* the lines and hosts format_syslog_message is called with
FmtChars == {"a", "1", " ", "\t"}

FmtLines == UNION {[1..n -> FmtChars] : n \in 0..MaxLineLen}

FmtHosts == {<<>>, <<"l", "i">>, <<"x">>}

\* lines 30-50: one call
Format ==
  /\ formatted_line.kind = "pending"
  /\ formatted_line' = format_syslog_message(fmt_line, fmt_host)
  /\ UNCHANGED <<fvars, wvars, dvars, rvars, svars, fmt_line, fmt_host>>

\* hostname = os.path.basename(log_file).split('.')[0]
HostnameOf(p) == SplitDotFirst(p.name)

\* "if formatted_line:" for the line main read
IsSent(p, k) ==
  LET f == format_syslog_message(Strip(FileContent(p)[k]), HostnameOf(p))
  IN f.kind # "none" /\ f.text # <<>>

----------------------------------------------------------------------------
\* The forwarder: main of send_logs.py

\* argparse action='store_true' with the given default
StoreTrue(given, default) == IF given THEN TRUE ELSE default

\* args.keep_logs: add_argument('--keep-logs', action='store_true', default=True)
KeepLogsArg(given) == StoreTrue(given, TRUE)

\* delete_after_send = args.delete_after_send and not args.keep_logs
EffectiveDelete(deleteArg, keepArg) == deleteArg /\ ~keepArg

IsTcp(protocol) == Lower(protocol) = <<"t", "c", "p">>

ConnectOutcomeIgnored(ok) == "locate"

\* after sock.connect: go on, or sys.exit(1)
AfterConnect(ok) == IF ok THEN "locate" ELSE "exit"

SentCountedAlways(total, ok) == total + 1

\* "if send_log(...): total_sent += 1"
CountSent(total, ok) == IF ok THEN total + 1 ELSE total

RetryFailedLine(k, ok) == IF ok THEN k + 1 ELSE k

\* the for loop over the lines of the file moves on whatever send_log returned
AfterSendIdx(k, ok) == k + 1

NeverLeaveLoop(loop) == FALSE

\* "if not args.loop: break"
BreakWhenNotLooping(loop) == ~loop

RelistAlways(loop, deleting, processed) == loop

\* the re-listing of log_files sits inside "if delete_after_send and processed_files:", under "if args.loop:"
Relists(loop, deleting, processed) == deleting /\ processed # <<>> /\ loop

FileErrorAborts(idx) == [pc |-> "exit", fileIdx |-> idx]

\* lines 218-219: "except Exception" logs the error and the for loop takes the next file
FileErrorGoesTo(idx) == [pc |-> "file", fileIdx |-> idx + 1]

EnterLoopAnyway(found) == "pass"

\* lines 177-179: "if not log_files: ... sys.exit(1)"
AfterLocate(found) == IF found = <<>> THEN "exit" ELSE "pass"

CurrentFile == log_files[fileIdx]

FaultCount == faults.env + faults.io + faults.send

ArgSets ==
  [loop : BOOLEAN, delete_flag : BOOLEAN, keep_given : BOOLEAN,
   protocol : {<<"t", "c", "p">>, <<"u", "d", "p">>}, log_type : LogTypes]

InitFwd ==
  /\ \E a \in ArgSets :
       /\ args = [loop |-> a.loop, delete_after_send |-> a.delete_flag, keep_given |-> a.keep_given,
                  keep_logs |-> KeepLogsArg(a.keep_given), protocol |-> a.protocol,
                  log_type |-> a.log_type]
       /\ delete_after_send = EffectiveDelete(a.delete_flag, KeepLogsArg(a.keep_given))
  /\ fs \in SUBSET AllPaths
  /\ scanOrder \in {o \in Perms(fs) : DirByDir(o)}
  /\ pc = "connect"
  /\ sock = "none"
  /\ connects = 0
  /\ log_files = <<>>
  /\ processed_files = <<>>
  /\ fileIdx = 0
  /\ lineIdx = 0
  /\ total_sent = 0
  /\ total_lines = 0
  /\ passNo = 0
  /\ visited = <<>>
  /\ scanned = {}
  /\ passLog = <<>>
  /\ attempts = [k \in {} |-> 0]
  /\ lastSend = "none"
  /\ removedByFwd = {}
  /\ removeFailed = {}
  /\ faults = [env |-> 0, io |-> 0, send |-> 0]
  /\ exitCode = -1

\* lines 162-169: TCP socket and its one connect
ConnectTcp ==
  /\ pc = "connect"
  /\ IsTcp(args.protocol)
  /\ \E ok \in BOOLEAN :
       /\ connects' = connects + 1
       /\ sock' = IF ok THEN "open" ELSE "none"
       /\ pc' = AfterConnect(ok)
       /\ exitCode' = IF AfterConnect(ok) = "exit" THEN 1 ELSE exitCode
  /\ UNCHANGED <<wvars, xvars, args, delete_after_send, fs, scanOrder, log_files, processed_files, fileIdx,
                 lineIdx, total_sent, total_lines, passNo, visited, scanned, passLog, attempts,
                 lastSend, removedByFwd, removeFailed, faults>>

\* lines 170-172: UDP socket, nothing to connect
CreateUdp ==
  /\ pc = "connect"
  /\ ~IsTcp(args.protocol)
  /\ sock' = "open"
  /\ pc' = "locate"
  /\ UNCHANGED <<wvars, xvars, args, delete_after_send, fs, scanOrder, connects, log_files, processed_files,
                 fileIdx, lineIdx, total_sent, total_lines, passNo, visited, scanned, passLog,
                 attempts, lastSend, removedByFwd, removeFailed, faults, exitCode>>

\* lines 174-182
Locate ==
  /\ pc = "locate"
  /\ \E found \in {find_log_files(fs, scanOrder, args.log_type)} :
       /\ log_files' = found
       /\ pc' = AfterLocate(found)
       /\ exitCode' = IF AfterLocate(found) = "exit" THEN 1 ELSE exitCode
  /\ processed_files' = <<>>
  /\ UNCHANGED <<wvars, xvars, args, delete_after_send, fs, scanOrder, sock, connects, fileIdx, lineIdx,
                 total_sent, total_lines, passNo, visited, scanned, passLog, attempts, lastSend,
                 removedByFwd, removeFailed, faults>>

\* lines 185-187: top of the while loop
StartPass ==
  /\ pc = "pass"
  /\ total_sent' = 0
  /\ total_lines' = 0
  /\ fileIdx' = 1
  /\ lineIdx' = 0
  /\ passNo' = passNo + 1
  /\ visited' = <<>>
  /\ scanned' = {}
  /\ passLog' = <<>>
  /\ pc' = "file"
  /\ UNCHANGED <<wvars, xvars, args, delete_after_send, fs, scanOrder, sock, connects, log_files,
                 processed_files, attempts, lastSend, removedByFwd, removeFailed, faults, exitCode>>

\* lines 189-198: next file of the for loop, first open (the line count);
\* an open of a missing file raises, any open or read may raise
CountLines ==
  /\ pc = "file"
  /\ fileIdx <= Len(log_files)
  /\ visited' = Append(visited, CurrentFile)
  /\ \E ok \in BOOLEAN :
       /\ ok => CurrentFile \in fs
       /\ ~ok /\ CurrentFile \in fs => FaultCount < MaxFaults
       /\ faults' = IF ~ok /\ CurrentFile \in fs THEN [faults EXCEPT !.io = @ + 1] ELSE faults
       /\ pc' = IF ok THEN "reopen" ELSE FileErrorGoesTo(fileIdx).pc
       /\ fileIdx' = IF ok THEN fileIdx ELSE FileErrorGoesTo(fileIdx).fileIdx
  /\ UNCHANGED <<wvars, xvars, args, delete_after_send, fs, scanOrder, sock, connects, log_files,
                 processed_files, lineIdx, total_sent, total_lines, passNo, scanned, passLog,
                 attempts, lastSend, removedByFwd, removeFailed, exitCode>>

\* line 201: the file is opened again to read its content
OpenStream ==
  /\ pc = "reopen"
  /\ \E ok \in BOOLEAN :
       /\ ok => CurrentFile \in fs
       /\ ~ok /\ CurrentFile \in fs => FaultCount < MaxFaults
       /\ faults' = IF ~ok /\ CurrentFile \in fs THEN [faults EXCEPT !.io = @ + 1] ELSE faults
       /\ pc' = IF ok THEN "stream" ELSE FileErrorGoesTo(fileIdx).pc
       /\ fileIdx' = IF ok THEN fileIdx ELSE FileErrorGoesTo(fileIdx).fileIdx
       /\ lineIdx' = IF ok THEN 1 ELSE lineIdx
  /\ UNCHANGED <<wvars, xvars, args, delete_after_send, fs, scanOrder, sock, connects, log_files,
                 processed_files, total_sent, total_lines, passNo, visited, scanned, passLog,
                 attempts, lastSend, removedByFwd, removeFailed, exitCode>>

\* lines 202-212 for a line that format_syslog_message turns into None
SkipBlankLine ==
  /\ pc = "stream"
  /\ lineIdx <= Len(FileContent(CurrentFile))
  /\ ~IsSent(CurrentFile, lineIdx)
  /\ total_lines' = total_lines + 1
  /\ lineIdx' = lineIdx + 1
  /\ UNCHANGED <<wvars, xvars, args, delete_after_send, fs, scanOrder, pc, sock, connects, log_files,
                 processed_files, fileIdx, total_sent, passNo, visited, scanned, passLog, attempts,
                 lastSend, removedByFwd, removeFailed, faults, exitCode>>

\* lines 202-212 with send_log (lines 52-62), which returns True or False
SendLine ==
  /\ pc = "stream"
  /\ lineIdx <= Len(FileContent(CurrentFile))
  /\ IsSent(CurrentFile, lineIdx)
  /\ total_lines' = total_lines + 1
  /\ \E ok \in BOOLEAN :
       LET key == [file |-> CurrentFile, line |-> lineIdx]
       IN /\ passLog' = Append(passLog, key)
          /\ attempts' = IF key \in DOMAIN attempts
                         THEN [attempts EXCEPT ![key] = @ + 1]
                         ELSE [k \in DOMAIN attempts \cup {key} |->
                                 IF k = key THEN 1 ELSE attempts[k]]
          /\ ~ok => FaultCount < MaxFaults
          /\ faults' = IF ok THEN faults ELSE [faults EXCEPT !.send = @ + 1]
          /\ lastSend' = IF ok THEN "ok" ELSE "fail"
          /\ total_sent' = CountSent(total_sent, ok)
          /\ lineIdx' = AfterSendIdx(lineIdx, ok)
  /\ UNCHANGED <<wvars, xvars, args, delete_after_send, fs, scanOrder, pc, sock, connects, log_files,
                 processed_files, fileIdx, passNo, visited, scanned, removedByFwd, removeFailed, exitCode>>

\* lines 218-219: reading the open file raises; the file is left and not processed
ReadError ==
  /\ pc = "stream"
  /\ FaultCount < MaxFaults
  /\ faults' = [faults EXCEPT !.io = @ + 1]
  /\ pc' = FileErrorGoesTo(fileIdx).pc
  /\ fileIdx' = FileErrorGoesTo(fileIdx).fileIdx
  /\ UNCHANGED <<wvars, xvars, args, delete_after_send, fs, scanOrder, sock, connects, log_files,
                 processed_files, lineIdx, total_sent, total_lines, passNo, visited, scanned,
                 passLog, attempts, lastSend, removedByFwd, removeFailed, exitCode>>

\* lines 214-216: the file was read to its end
FileDone ==
  /\ pc = "stream"
  /\ lineIdx > Len(FileContent(CurrentFile))
  /\ processed_files' = IF delete_after_send /\ ~Contains(processed_files, CurrentFile)
                        THEN Append(processed_files, CurrentFile) ELSE processed_files
  /\ scanned' = scanned \cup {CurrentFile}
  /\ fileIdx' = fileIdx + 1
  /\ pc' = "file"
  /\ UNCHANGED <<wvars, xvars, args, delete_after_send, fs, scanOrder, sock, connects, log_files, lineIdx,
                 total_sent, total_lines, passNo, visited, passLog, attempts, lastSend, removedByFwd, removeFailed,
                 faults, exitCode>>

\* line 221: the for loop is over
PassDone ==
  /\ pc = "file"
  /\ fileIdx > Len(log_files)
  /\ pc' = "endpass"
  /\ UNCHANGED <<wvars, xvars, args, delete_after_send, fs, scanOrder, sock, connects, log_files,
                 processed_files, fileIdx, lineIdx, total_sent, total_lines, passNo, visited,
                 scanned, passLog, attempts, lastSend, removedByFwd, removeFailed, faults, exitCode>>

\* lines 223-252: deletion of the processed files, re-listing, and the loop decision;
\* failing = the files whose os.remove raises
EndPass ==
  /\ pc = "endpass"
  /\ \E failing \in SUBSET Range(processed_files) :
       LET deleting == delete_after_send /\ processed_files # <<>>
           gone == IF deleting
                   THEN {f \in Range(processed_files) : f \in fs /\ f \notin failing}
                   ELSE {}
           relist == Relists(args.loop, delete_after_send, processed_files)
           remaining == IF relist
                        THEN SelectSeq(log_files, LAMBDA f : f \in fs \ gone)
                        ELSE log_files
           leave == (relist /\ remaining = <<>>) \/ BreakWhenNotLooping(args.loop)
       IN /\ leave \/ passNo < MaxPasses
          /\ fs' = fs \ gone
          /\ removedByFwd' = removedByFwd \cup gone
          /\ removeFailed' = removeFailed \cup (IF deleting THEN failing \cap fs ELSE {})
          /\ processed_files' = IF deleting THEN <<>> ELSE processed_files
          /\ log_files' = remaining
          /\ pc' = IF leave THEN "close" ELSE "pass"
  /\ UNCHANGED <<wvars, xvars, args, delete_after_send, scanOrder, sock, connects, fileIdx, lineIdx,
                 total_sent, total_lines, passNo, visited, scanned, passLog, attempts, lastSend,
                 faults, exitCode>>

\* lines 254-258
Finish ==
  /\ pc = "close"
  /\ sock' = IF IsTcp(args.protocol) THEN "closed" ELSE sock
  /\ pc' = "done"
  /\ exitCode' = 0
  /\ UNCHANGED <<wvars, xvars, args, delete_after_send, fs, scanOrder, connects, log_files, processed_files,
                 fileIdx, lineIdx, total_sent, total_lines, passNo, visited, scanned, passLog,
                 attempts, lastSend, removedByFwd, removeFailed, faults>>

\* another process removes a log file while the forwarder runs
EnvRemove ==
  /\ pc \notin {"done", "exit"}
  /\ FaultCount < MaxFaults
  /\ \E p \in fs : fs' = fs \ {p}
  /\ faults' = [faults EXCEPT !.env = @ + 1]
  /\ UNCHANGED <<wvars, xvars, args, delete_after_send, scanOrder, pc, sock, connects, log_files,
                 processed_files, fileIdx, lineIdx, total_sent, total_lines, passNo, visited,
                 scanned, passLog, attempts, lastSend, removedByFwd, removeFailed, exitCode>>

FwdStep ==
  \/ ConnectTcp
  \/ CreateUdp
  \/ Locate
  \/ StartPass
  \/ CountLines
  \/ OpenStream
  \/ SkipBlankLine
  \/ SendLine
  \/ ReadError
  \/ FileDone
  \/ PassDone
  \/ EndPass
  \/ Finish

----------------------------------------------------------------------------
\* The verifier: the watch loop of main of test_count_logs.py (lines 243-283)

Intervals == {1, 2}

NoChangeTimeouts == {0, 2, 10}

Timeouts == {0, 3, 20}

\* the document counts a poll can return
Counts == {0, 40, 50, 100}

\* "for x in all_log_files: if filename == type.log or filename.startswith(type): append"
FilterByType(candidates, typeLower) ==
  SelectSeq(candidates, LAMBDA x : Lower(x.name) = typeLower \o DotLog
                                   \/ StartsWith(Lower(x.name), typeLower))

\* sum(1 for line in f if line.strip())
NonBlankLines(p) == Cardinality({k \in DOMAIN FileContent(p) : Strip(FileContent(p)[k]) # <<>>})

RECURSIVE SumNonBlank(_)
SumNonBlank(files) ==
  IF files = <<>> THEN 0 ELSE NonBlankLines(Head(files)) + SumNonBlank(Tail(files))

\* count_log_lines_in_files (lines 131-182): the non-blank lines of the files of a log
\* type; main never calls it
count_log_lines_in_files(files, order, logType) ==
  LET typeLower == Lower(logType)
      typeDir == Capitalize(logType)
      inTypeDir == IF DirExists(files, typeDir) THEN GlobTypeDir(files, order, typeDir) ELSE <<>>
      all_log_files == GlobDir(files, order, <<>>) \o GlobRec(files, order)
      found == IF typeLower = ALL
               THEN GlobRec(files, order) \o GlobDir(files, order, <<>>)
               ELSE inTypeDir \o FilterByType(all_log_files, typeLower)
  IN SumNonBlank(Unique(found))

\* the expected count of the fixture tree, all log types
ExpectedCount == count_log_lines_in_files(AllPaths, <<P_Li, P_li, P_x, P_sub>>, ALL)

\* what client.indices.get_data_stream does: the stream is there, is not, or the call raises
ExistsOutcomes == {"exists", "missing", "raises"}

\* what client.count does: a response with a count, a response without one, or it raises
CountOutcomes ==
  [kind : {"count"}, n : Counts] \cup {[kind |-> "nokey", n |-> 0], [kind |-> "raises", n |-> 0]}

\* check_data_stream_exists: "except Exception: return False"
check_data_stream_exists(e) == e = "exists"

CountLogsPropagates(e, q) ==
  [raised |-> e = "raises" \/ (e = "exists" /\ q.kind = "raises"),
   value |-> IF e = "exists" /\ q.kind = "count" THEN q.n ELSE 0]

\* count_logs: 0 when the stream does not exist, response.get("count", 0) otherwise,
\* and 0 from "except Exception"; it raises nothing of class Exception
count_logs(e, q) ==
  [raised |-> FALSE,
   value |-> IF ~check_data_stream_exists(e) THEN 0
             ELSE IF q.kind = "raises" THEN 0
             ELSE IF q.kind = "nokey" THEN 0
             ELSE q.n]

\* how a call of count_logs went, as its caller cannot see it
PollKind(e, q) ==
  IF e = "raises" \/ (e = "exists" /\ q.kind = "raises") THEN "error"
  ELSE IF e = "missing" THEN "missing" ELSE "ok"

\* int(t1 - t0), the clock being in units of 1/Res second
IntSeconds(t1, t0) == (t1 - t0) \div Res

NewLogsOnNoDecrease(c, prev) == IF c >= prev THEN 1 ELSE 0

\* new_logs = count - prev_count if count > prev_count else 0
NewLogs(c, prev) == IF c > prev THEN c - prev ELSE 0

\* if seconds_since_last_change >= args.no_change_timeout and count > 0
NoChangeStop(since, c, limit) == since >= limit /\ c > 0

TimeoutStopMissing(elapsed, limit) == FALSE

\* if args.timeout > 0 and elapsed_seconds >= args.timeout
TimeoutStop(elapsed, limit) == limit > 0 /\ elapsed >= limit

InitWatch ==
  /\ wargs \in [interval : Intervals, no_change_timeout : NoChangeTimeouts, timeout : Timeouts]
  /\ wpc = "tick"
  /\ now = 0
  /\ current_time = 0
  /\ lastIncrease = 0
  /\ start_time = 0
  /\ last_change_time = 0
  /\ prev_count = 0
  /\ count = 0
  /\ elapsed_seconds = 0
  /\ seconds_since_last_change = 0
  /\ stopReason = "none"
  /\ runLen = 0
  /\ lastPoll = "none"
  /\ observed = -1
  /\ out = -1
  /\ wexit = -1

\* one iteration of "while True": lines 249-279; the poll takes d clock units;
\* an exception that left count_logs would reach "except Exception" (lines 307-312)
Tick ==
  /\ wpc = "tick"
  /\ \E e \in ExistsOutcomes, q \in CountOutcomes, d \in 0..MaxPollDelay :
       LET r == count_logs(e, q)
           c == r.value
           elapsed == IntSeconds(now, start_time)
           since0 == IntSeconds(now, last_change_time)
           new_logs == NewLogs(c, prev_count)
           since == IF new_logs > 0 THEN 0 ELSE since0
           stopNoChange == NoChangeStop(since, c, wargs.no_change_timeout)
           stopTimeout == TimeoutStop(elapsed, wargs.timeout)
       IN /\ now' = now + d
          /\ lastPoll' = PollKind(e, q)
          /\ IF r.raised
             THEN /\ wpc' = "failed"
                  /\ wexit' = 1
                  /\ UNCHANGED <<current_time, lastIncrease, elapsed_seconds,
                                 seconds_since_last_change, last_change_time, count, runLen,
                                 prev_count, stopReason, observed, out>>
             ELSE /\ current_time' = now
                  /\ lastIncrease' = IF c > prev_count THEN now ELSE lastIncrease
                  /\ elapsed_seconds' = elapsed
                  /\ seconds_since_last_change' = since
                  /\ last_change_time' = IF new_logs > 0 THEN now ELSE last_change_time
                  /\ count' = c
                  /\ observed' = c
                  /\ out' = c
                  /\ runLen' = IF runLen > 0 /\ c = count THEN runLen + 1 ELSE 1
                  /\ prev_count' = c
                  /\ stopReason' = IF stopNoChange THEN "nochange"
                                   ELSE IF stopTimeout THEN "timeout" ELSE "none"
                  /\ wpc' = IF stopNoChange \/ stopTimeout THEN "stopped" ELSE "sleep"
                  /\ wexit' = IF stopNoChange \/ stopTimeout THEN 0 ELSE wexit
  /\ UNCHANGED <<fvars, xvars, wargs, start_time>>

\* line 281: time.sleep(args.interval), which sleeps at least that long
Sleep ==
  /\ wpc = "sleep"
  /\ \E j \in 0..MaxJitter :
       /\ now + wargs.interval * Res + j <= MaxNow
       /\ now' = now + wargs.interval * Res + j
  /\ wpc' = "tick"
  /\ UNCHANGED <<fvars, xvars, wargs, current_time, lastIncrease, start_time, last_change_time, prev_count,
                 count, elapsed_seconds, seconds_since_last_change, stopReason, runLen,
                 lastPoll, observed, out, wexit>>

\* lines 282-283: KeyboardInterrupt, raised while count_logs runs ("poll"), right after
\* it returned and before the count is printed ("assigned"), or during time.sleep;
\* the handler prints "Watch mode stopped by user." and main returns
Interrupt ==
  /\ wpc \in {"tick", "sleep"}
  /\ \E at \in {"poll", "assigned"}, e \in ExistsOutcomes, q \in CountOutcomes :
       /\ at = "assigned" => wpc = "tick" /\ ~count_logs(e, q).raised
       /\ observed' = IF at = "assigned" THEN count_logs(e, q).value ELSE observed
       /\ lastPoll' = IF at = "assigned" THEN PollKind(e, q) ELSE lastPoll
  /\ wpc' = "interrupted"
  /\ wexit' = 0
  /\ UNCHANGED <<fvars, xvars, wargs, now, current_time, lastIncrease, start_time, last_change_time,
                 prev_count, count, elapsed_seconds, seconds_since_last_change, stopReason,
                 runLen, out>>

WatchStep ==
  \/ Tick
  \/ Sleep
  \/ Interrupt

----------------------------------------------------------------------------
\* The downloader: download_logs.py

\* LOG_FILES (lines 12-18), in the order of the dict; a URL is "z/<Name>.t?d", standing
\* for "https://zenodo.org/records/8196385/files/<Name>.tar.gz?download=1"
Url(name) == <<"z", "/", name, ".", "t", "?", "d">>

LOG_FILES ==
  << [type |-> "windows", url |-> Url("W")], [type |-> "linux", url |-> Url("L")],
     [type |-> "mac", url |-> Url("M")], [type |-> "ssh", url |-> Url("S")],
     [type |-> "apache", url |-> Url("A")] >>

AllUrls == {LOG_FILES[i].url : i \in DOMAIN LOG_FILES}

\* s.split(sep)[-1]
RECURSIVE SplitLast(_, _)
SplitLast(str, sep) ==
  IF \E i \in DOMAIN str : str[i] = sep
  THEN SplitLast(SubSeq(str, (CHOOSE i \in DOMAIN str : str[i] = sep) + 1, Len(str)), sep)
  ELSE str

\* s.split(sep)[0]
RECURSIVE SplitFirst(_, _)
SplitFirst(str, sep) ==
  IF str = <<>> \/ Head(str) = sep THEN <<>> ELSE <<Head(str)>> \o SplitFirst(Tail(str), sep)

\* filename = url.split('/')[-1].split('?')[0]
Filename(url) == SplitFirst(SplitLast(url, "/"), "?")

\* a file of archive_dir whose name differs from Linux.tar.gz by case only
Decoy == <<"l", ".", "t">>

ArchiveNames == {Filename(u) : u \in AllUrls} \cup {Decoy}

\* how requests.get and the streaming of the body can go: a 200 response streamed to
\* its end, an error response (404, 500: its body is streamed just the same), no
\* connection (requests.get raises), or a connection lost while streaming
Responses == {"ok", "http_error", "conn_error", "broken"}

AlwaysDownload(exists) == TRUE

\* "if os.path.exists(output_path): ... return output_path"
NeedsDownload(exists) == ~exists

\* requests.get raises only without a response; iter_content raises when the stream breaks
Raises(resp) == resp \in {"conn_error", "broken"}

\* what the open(output_path, 'wb') and the write loop leave in archive_dir
Written(resp, before) ==
  CASE resp = "ok" -> "complete"
    [] resp = "http_error" -> "errorbody"
    [] resp = "broken" -> "partial"
    [] OTHER -> before

SkipRestAfterError(idx, n) == n + 1

\* lines 180-181: "except Exception" prints the error and the for loop takes the next URL
NextUrlAfterError(idx, n) == idx + 1

\* lines 160-166
SelectUrls(logType) ==
  IF logType = "all" THEN [i \in DOMAIN LOG_FILES |-> LOG_FILES[i].url]
  ELSE [i \in {1} |-> (CHOOSE e \in Range(LOG_FILES) : e.type = logType).url]

InitDownload ==
  /\ dargs \in [log_type : {"all", "linux", "mac"}, force_download : BOOLEAN]
  /\ existing_logs \in BOOLEAN
  /\ dpc = "start"
  /\ archive \in {a \in [ArchiveNames -> {"absent", "complete", "partial", "errorbody"}] :
                    /\ a[Decoy] \in {"absent", "complete"}
                    /\ Cardinality({n \in ArchiveNames : a[n] \in {"partial", "errorbody"}}) <= 1}
  /\ urls = <<>>
  /\ urlIdx = 0
  /\ archive_path = <<>>
  /\ getCalls = [u \in AllUrls |-> 0]
  /\ outcome = [u \in AllUrls |-> "none"]
  /\ returned = [u \in AllUrls |-> "none"]
  /\ extractCalls = [u \in AllUrls |-> 0]
  /\ extracted = [u \in AllUrls |-> "none"]

\* lines 154-169: nothing to do when the logs are there and no download is forced
SelectLogs ==
  /\ dpc = "start"
  /\ LET skip == ~dargs.force_download /\ existing_logs
     IN /\ dpc' = IF skip THEN "done" ELSE "download"
        /\ urls' = IF skip THEN <<>> ELSE SelectUrls(dargs.log_type)
        /\ urlIdx' = IF skip THEN 0 ELSE 1
  /\ UNCHANGED <<fvars, wvars, mvars, rvars, svars, dargs, existing_logs, archive, archive_path, getCalls,
                 outcome, returned, extractCalls, extracted>>

\* line 175 with download_file (lines 20-56); an exception reaches line 180 and the
\* for loop goes on with the next URL
DownloadFile ==
  /\ dpc = "download"
  /\ urlIdx <= Len(urls)
  /\ LET url == urls[urlIdx]
         filename == Filename(url)
     IN IF ~NeedsDownload(archive[filename] # "absent")
        THEN /\ outcome' = [outcome EXCEPT ![url] = "cached"]
             /\ returned' = [returned EXCEPT ![url] = "path"]
             /\ archive_path' = filename
             /\ dpc' = "extract"
             /\ UNCHANGED <<archive, getCalls, urlIdx>>
        ELSE \E resp \in Responses :
               /\ getCalls' = [getCalls EXCEPT ![url] = @ + 1]
               /\ outcome' = [outcome EXCEPT ![url] = resp]
               /\ archive' = [archive EXCEPT ![filename] = Written(resp, @)]
               /\ returned' = [returned EXCEPT ![url] = IF Raises(resp) THEN "raised" ELSE "path"]
               /\ archive_path' = IF Raises(resp) THEN archive_path ELSE filename
               /\ dpc' = IF Raises(resp) THEN "download" ELSE "extract"
               /\ urlIdx' = IF Raises(resp) THEN NextUrlAfterError(urlIdx, Len(urls)) ELSE urlIdx
  /\ UNCHANGED <<fvars, wvars, mvars, rvars, svars, dargs, existing_logs, urls, extractCalls, extracted>>

\* lines 178-179 with extract_tarfile (lines 58-74): a complete archive is extracted;
\* tarfile raises on an error body, and on a truncated archive after it may have
\* extracted some members
ExtractTarfile ==
  /\ dpc = "extract"
  /\ LET url == urls[urlIdx]
         content == archive[archive_path]
     IN /\ extractCalls' = [extractCalls EXCEPT ![url] = @ + 1]
        /\ \E got \in {"none", "part", "full"} :
             /\ content = "complete" => got = "full"
             /\ content = "partial" => got \in {"none", "part"}
             /\ content = "errorbody" => got = "none"
             /\ extracted' = [extracted EXCEPT ![url] = got]
             /\ urlIdx' = IF content = "complete" THEN urlIdx + 1
                          ELSE NextUrlAfterError(urlIdx, Len(urls))
  /\ dpc' = "download"
  /\ UNCHANGED <<fvars, wvars, mvars, rvars, svars, dargs, existing_logs, archive, urls, archive_path, getCalls,
                 outcome, returned>>

\* lines 183-191: the for loop is over
ListOutput ==
  /\ dpc = "download"
  /\ urlIdx > Len(urls)
  /\ dpc' = "done"
  /\ UNCHANGED <<fvars, wvars, mvars, rvars, svars, dargs, existing_logs, archive, urls, urlIdx, archive_path,
                 getCalls, outcome, returned, extractCalls, extracted>>

----------------------------------------------------------------------------
\* The test runner: test_syslog_server.py (the parsing of the final count)

DigitChars == <<"0", "1", "2", "3", "4", "5", "6", "7", "8", "9">>

IsDigit(c) == \E i \in DOMAIN DigitChars : DigitChars[i] = c

DigitValue(c) == (CHOOSE i \in DOMAIN DigitChars : DigitChars[i] = c) - 1

\* str(n) of the f-string of test_count_logs.py line 287
RECURSIVE Str(_)
Str(n) == IF n < 10 THEN <<DigitChars[n + 1]>> ELSE Str(n \div 10) \o <<DigitChars[(n % 10) + 1]>>

\* int(s)
RECURSIVE ToInt(_)
ToInt(str) ==
  IF str = <<>> THEN 0 ELSE ToInt(SubSeq(str, 1, Len(str) - 1)) * 10 + DigitValue(str[Len(str)])

\* the digits a string starts with: the group (\d+)
RECURSIVE LeadingDigits(_)
LeadingDigits(str) ==
  IF str # <<>> /\ IsDigit(Head(str)) THEN <<Head(str)>> \o LeadingDigits(Tail(str)) ELSE <<>>

\* stdout of the single count (test_count_logs.py lines 286-293), stripped:
\* "Log count for '<stream>': <n>", then the data stream info
SingleCountStdout(n) == <<"L", "'", "s", "'", ":", " ">> \o Str(n) \o <<"\n", "D", ":", "\n">>

\* re.search(r"Log count for.*: (\d+)", output).group(1), <<>> when there is no match
CountMatch(output) ==
  LET hits == {i \in DOMAIN output :
                 /\ output[1] = "L"
                 /\ i + 2 <= Len(output)
                 /\ output[i] = ":" /\ output[i + 1] = " " /\ IsDigit(output[i + 2])
                 /\ \A j \in 1..i : output[j] # "\n"}
  IN IF hits = {} THEN <<>>
     ELSE LeadingDigits(SubSeq(output, (CHOOSE i \in hits : \A k \in hits : k <= i) + 2,
                               Len(output)))

\* lines 443-447
FinalCountOf(output) ==
  IF output # <<>> /\ CountMatch(output) # <<>> THEN ToInt(CountMatch(output)) ELSE 0

VerdictAlwaysPassed(n) == "PASSED"

\* lines 450-455
Verdict(n) == IF n > 0 THEN "PASSED" ELSE "FAILED"

\* line 471
ExitStatus(result) == IF result = "PASSED" THEN 0 ELSE 1

NoReport == [written |-> FALSE, result |-> "UNSET", count |-> 0]

----------------------------------------------------------------------------
\* Start-up of the data-stream setup and of the verifier: load_env_variables,
\* create_es_client and the first lines of main (the two files have the same code)

HTTP == <<"h", "t", "t", "p", ":", "/", "/">>

HTTPS == <<"h", "t", "t", "p", "s", ":", "/", "/">>

\* s.find(sub) + 1: where sub first occurs in s, 0 when it does not
IndexOf(s, sub) ==
  LET at == {i \in 1..(Len(s) - Len(sub) + 1) : SubSeq(s, i, i + Len(sub) - 1) = sub}
  IN IF at = {} THEN 0 ELSE CHOOSE i \in at : \A k \in at : i <= k

\* s.split(sep, 1)
SplitOnce(s, sep) ==
  LET i == IndexOf(s, sep)
  IN IF i = 0 THEN <<s>> ELSE <<SubSeq(s, 1, i - 1), SubSeq(s, i + Len(sep), Len(s))>>

\* re.search(r':\d+($|/)', es_endpoint)
PortInUrl(s) ==
  \E i \in DOMAIN s :
    /\ s[i] = ":"
    /\ \E j \in (i + 1)..Len(s) :
         /\ \A k \in (i + 1)..j : IsDigit(s[k])
         /\ j = Len(s) \/ s[j + 1] = "/"

OnlyEndpointRequired(endpoint, key) == endpoint = <<>>

\* "if not es_endpoint or not api_key": unset or empty
MissingCredentials(endpoint, key) == endpoint = <<>> \/ key = <<>>

NoUrl == [raised |-> TRUE, url |-> <<>>, api_key |-> <<>>]

\* load_env_variables: raises ValueError, or returns (url, api_key)
load_env_variables(env) ==
  IF MissingCredentials(env.ES_ENDPOINT, env.ELASTIC_ADMIN_API_KEY) THEN NoUrl
  ELSE LET given == env.ES_ENDPOINT
           noslash == IF EndsWith(given, <<"/">>) THEN SubSeq(given, 1, Len(given) - 1) ELSE given
           endpoint == IF ~(StartsWith(noslash, HTTP) \/ StartsWith(noslash, HTTPS))
                       THEN HTTPS \o noslash ELSE noslash
           es_port == IF env.ES_PORT = <<>>
                      THEN (IF StartsWith(endpoint, HTTPS) THEN <<"4", "4", "3">>
                            ELSE <<"9", "2", "0", "0">>)
                      ELSE env.ES_PORT
           rest == SplitOnce(endpoint, <<":", "/", "/">>)[2]
           host_part == SplitOnce(rest, <<"/">>)[1]
           scheme == SplitOnce(endpoint, <<":", "/", "/">>)[1]
           path == IF IndexOf(rest, <<"/">>) > 0 THEN <<"/">> \o SplitOnce(rest, <<"/">>)[2]
                   ELSE <<>>
       IN [raised |-> FALSE,
           url |-> IF ~PortInUrl(endpoint)
                   THEN scheme \o <<":", "/", "/">> \o host_part \o <<":">> \o es_port \o path
                   ELSE endpoint,
           api_key |-> env.ELASTIC_ADMIN_API_KEY]

\* re.match(r'^https?://[^:]+:\d+', es_endpoint): the match is anchored at the start only
UrlFormatOk(url) ==
  \E p \in {HTTP, HTTPS} :
    /\ StartsWith(url, p)
    /\ LET rest == SubSeq(url, Len(p) + 1, Len(url))
           colon == IndexOf(rest, <<":">>)
       IN colon > 1 /\ colon < Len(rest) /\ IsDigit(rest[colon + 1])

\* "if args.es_endpoint:" / "if args.api_key:"
Override(value, given) == IF given # <<>> THEN given ELSE value

SetupProgram == "setup_datastream"

VerifierProgram == "test_count_logs"

EnvEndpoints ==
  { <<>>, <<"h">>, <<"h", "/">>, <<"h", ":", "9">>, <<"h", ":", "x">>,
    HTTP \o <<"h">>, HTTPS \o <<"h", ":", "9">>, HTTPS \o <<"h", ":", "9", "x">>,
    HTTPS \o <<"h", "/", "p">>, HTTPS, <<"f", ":", "/", "/", "h">> }

EnvPorts == { <<>>, <<"9">>, <<"x">> }

CliEndpoints == { <<>>, <<"h">>, HTTPS \o <<"h", ":", "9">> }

Keys == { <<>>, <<"k">> }

InitStartup ==
  /\ sprog \in {SetupProgram, VerifierProgram}
  /\ senv \in [ES_ENDPOINT : EnvEndpoints, ELASTIC_ADMIN_API_KEY : Keys, ES_PORT : EnvPorts]
  /\ scli \in [es_endpoint : CliEndpoints, api_key : Keys]
  /\ spc = "load"
  /\ es_endpoint = <<>>
  /\ api_key = <<>>
  /\ client = "none"
  /\ requests = <<>>
  /\ serror = "none"
  /\ sexit = -1

\* setup_datastream.py lines 209, 255-259 / test_count_logs.py lines 206, 307-312
LoadEnv ==
  /\ spc = "load"
  /\ LET loaded == load_env_variables(senv)
     IN IF loaded.raised
        THEN /\ spc' = "exited" /\ sexit' = 1 /\ serror' = "missing_credentials"
             /\ UNCHANGED <<es_endpoint, api_key>>
        ELSE /\ spc' = "override"
             /\ es_endpoint' = loaded.url
             /\ api_key' = loaded.api_key
             /\ UNCHANGED <<sexit, serror>>
  /\ UNCHANGED <<fvars, wvars, mvars, dvars, rvars, sprog, senv, scli, client, requests>>

\* setup_datastream.py lines 216-223 / test_count_logs.py lines 209-212
OverrideFromArgs ==
  /\ spc = "override"
  /\ es_endpoint' = Override(es_endpoint, scli.es_endpoint)
  /\ api_key' = Override(api_key, scli.api_key)
  /\ spc' = "client"
  /\ UNCHANGED <<fvars, wvars, mvars, dvars, rvars, sprog, senv, scli, client, requests, serror,
                 sexit>>

\* create_es_client: the format test, then the Elasticsearch constructor (which sends
\* nothing and may itself reject the URL), then client.ping(); every exception is
\* re-raised to main, which exits with status 1
CreateEsClient ==
  /\ spc = "client"
  /\ IF ~UrlFormatOk(es_endpoint)
     THEN /\ spc' = "exited" /\ sexit' = 1 /\ serror' = "invalid_url"
          /\ UNCHANGED <<client, requests>>
     ELSE \E built \in BOOLEAN, pong \in BOOLEAN :
            IF ~built
            THEN /\ spc' = "exited" /\ sexit' = 1 /\ serror' = "rejected_url"
                 /\ UNCHANGED <<client, requests>>
            ELSE /\ client' = "built"
                 /\ requests' = Append(requests, "ping")
                 /\ IF pong
                    THEN spc' = "run" /\ UNCHANGED <<sexit, serror>>
                    ELSE spc' = "exited" /\ sexit' = 1 /\ serror' = "no_connection"
  /\ UNCHANGED <<fvars, wvars, mvars, dvars, rvars, sprog, senv, scli, es_endpoint, api_key>>

\* setup_datastream.py line 244 with delete_datastream (lines 94-118): the data stream
\* is looked up and, when it exists, deleted; a failure only gives a warning
DeleteDatastream ==
  /\ spc = "run"
  /\ sprog = SetupProgram
  /\ \E exists \in BOOLEAN :
       requests' = requests \o (IF exists THEN <<"get_data_stream", "delete_data_stream">>
                                ELSE <<"get_data_stream">>)
  /\ spc' = "template"
  /\ UNCHANGED <<fvars, wvars, mvars, dvars, rvars, sprog, senv, scli, es_endpoint, api_key, client,
                 serror, sexit>>

\* setup_datastream.py line 249 with create_index_template (lines 120-189)
CreateIndexTemplate ==
  /\ spc = "template"
  /\ requests' = Append(requests, "put_index_template")
  /\ \E acknowledged \in BOOLEAN :
       /\ sexit' = IF acknowledged THEN 0 ELSE 1
       /\ serror' = IF acknowledged THEN serror ELSE "template"
  /\ spc' = "exited"
  /\ UNCHANGED <<fvars, wvars, mvars, dvars, rvars, sprog, senv, scli, es_endpoint, api_key, client>>

\* test_count_logs.py from line 223 on: the first query of the verifier, a count or a
\* listing of the data streams
FirstQuery ==
  /\ spc = "run"
  /\ sprog = VerifierProgram
  /\ \E q \in {"count", "get_data_stream"} : requests' = Append(requests, q)
  /\ spc' = "querying"
  /\ UNCHANGED <<fvars, wvars, mvars, dvars, rvars, sprog, senv, scli, es_endpoint, api_key, client,
                 serror, sexit>>

----------------------------------------------------------------------------
\* The test runner: main of test_syslog_server.py from the backup of .env (line 265) on

\* the .env files of the model: the three required settings; the namespace and the log
\* type set already; those two before the rest, with a comment line; no newline after
\* the last line; a required setting missing; the namespace set twice and an indented
\* LOG_TYPE line; a required setting without value; an empty file
EnvPlain ==
  <<"E", "S", "_", "E", "N", "D", "P", "O", "I", "N", "T", "=", "h", "\n">>
  \o <<"E", "L", "A", "S", "T", "I", "C", "_", "L", "O", "G", "S", "T", "A", "S", "H", "_", "A", "P", "I", "_", "K", "E", "Y", "=", "k", "\n">>
  \o <<"E", "L", "A", "S", "T", "I", "C", "_", "A", "D", "M", "I", "N", "_", "A", "P", "I", "_", "K", "E", "Y", "=", "k", "\n">>

EnvWithSettings ==
  <<"E", "S", "_", "E", "N", "D", "P", "O", "I", "N", "T", "=", "h", "\n">>
  \o <<"E", "L", "A", "S", "T", "I", "C", "_", "L", "O", "G", "S", "T", "A", "S", "H", "_", "A", "P", "I", "_", "K", "E", "Y", "=", "k", "\n">>
  \o <<"E", "L", "A", "S", "T", "I", "C", "_", "A", "D", "M", "I", "N", "_", "A", "P", "I", "_", "K", "E", "Y", "=", "k", "\n">>
  \o <<"E", "S", "_", "D", "A", "T", "A", "_", "S", "T", "R", "E", "A", "M", "_", "N", "A", "M", "E", "S", "P", "A", "C", "E", "=", "o", "\n">>
  \o <<"L", "O", "G", "_", "T", "Y", "P", "E", "=", "m", "a", "c", "\n">>

EnvSettingsFirst ==
  <<"E", "S", "_", "D", "A", "T", "A", "_", "S", "T", "R", "E", "A", "M", "_", "N", "A", "M", "E", "S", "P", "A", "C", "E", "=", "o", "\n">>
  \o <<"E", "S", "_", "E", "N", "D", "P", "O", "I", "N", "T", "=", "h", "\n">>
  \o <<"L", "O", "G", "_", "T", "Y", "P", "E", "=", "m", "a", "c", "\n">>
  \o <<"E", "L", "A", "S", "T", "I", "C", "_", "L", "O", "G", "S", "T", "A", "S", "H", "_", "A", "P", "I", "_", "K", "E", "Y", "=", "k", "\n">>
  \o <<"#", "c", "\n">>
  \o <<"E", "L", "A", "S", "T", "I", "C", "_", "A", "D", "M", "I", "N", "_", "A", "P", "I", "_", "K", "E", "Y", "=", "k", "\n">>

EnvNoFinalNewline ==
  <<"E", "S", "_", "E", "N", "D", "P", "O", "I", "N", "T", "=", "h", "\n">>
  \o <<"E", "L", "A", "S", "T", "I", "C", "_", "L", "O", "G", "S", "T", "A", "S", "H", "_", "A", "P", "I", "_", "K", "E", "Y", "=", "k", "\n">>
  \o <<"E", "L", "A", "S", "T", "I", "C", "_", "A", "D", "M", "I", "N", "_", "A", "P", "I", "_", "K", "E", "Y", "=", "k">>

EnvNoAdminKey ==
  <<"E", "S", "_", "E", "N", "D", "P", "O", "I", "N", "T", "=", "h", "\n">>
  \o <<"E", "L", "A", "S", "T", "I", "C", "_", "L", "O", "G", "S", "T", "A", "S", "H", "_", "A", "P", "I", "_", "K", "E", "Y", "=", "k", "\n">>

EnvTwiceAndIndented ==
  <<"E", "S", "_", "D", "A", "T", "A", "_", "S", "T", "R", "E", "A", "M", "_", "N", "A", "M", "E", "S", "P", "A", "C", "E", "=", "o", "\n">>
  \o <<"E", "S", "_", "D", "A", "T", "A", "_", "S", "T", "R", "E", "A", "M", "_", "N", "A", "M", "E", "S", "P", "A", "C", "E", "=", "o", "\n">>
  \o <<"E", "S", "_", "E", "N", "D", "P", "O", "I", "N", "T", "=", "h", "\n">>
  \o <<"E", "L", "A", "S", "T", "I", "C", "_", "L", "O", "G", "S", "T", "A", "S", "H", "_", "A", "P", "I", "_", "K", "E", "Y", "=", "k", "\n">>
  \o <<"E", "L", "A", "S", "T", "I", "C", "_", "A", "D", "M", "I", "N", "_", "A", "P", "I", "_", "K", "E", "Y", "=", "k", "\n">>
  \o <<" ", "L", "O", "G", "_", "T", "Y", "P", "E", "=", "m", "a", "c", "\n">>

EnvEmptyAdminKey ==
  <<"E", "S", "_", "E", "N", "D", "P", "O", "I", "N", "T", "=", "h", "\n">>
  \o <<"E", "L", "A", "S", "T", "I", "C", "_", "L", "O", "G", "S", "T", "A", "S", "H", "_", "A", "P", "I", "_", "K", "E", "Y", "=", "k", "\n">>
  \o <<"E", "L", "A", "S", "T", "I", "C", "_", "A", "D", "M", "I", "N", "_", "A", "P", "I", "_", "K", "E", "Y", "=", "\n">>

EnvEmpty == <<>>

EnvFiles ==
  {EnvPlain, EnvWithSettings, EnvSettingsFirst, EnvNoFinalNewline,
   EnvNoAdminKey, EnvTwiceAndIndented, EnvEmptyAdminKey, EnvEmpty}

NamespacePrefix == <<"E", "S", "_", "D", "A", "T", "A", "_", "S", "T", "R", "E", "A", "M", "_", "N", "A", "M", "E", "S", "P", "A", "C", "E", "=">>

LogTypePrefix == <<"L", "O", "G", "_", "T", "Y", "P", "E", "=">>

required_vars ==
  { <<"E", "S", "_", "E", "N", "D", "P", "O", "I", "N", "T">>,
    <<"E", "L", "A", "S", "T", "I", "C", "_", "L", "O", "G", "S", "T", "A", "S", "H", "_", "A", "P", "I", "_", "K", "E", "Y">>,
    <<"E", "L", "A", "S", "T", "I", "C", "_", "A", "D", "M", "I", "N", "_", "A", "P", "I", "_", "K", "E", "Y">> }

NoBackup == [exists |-> FALSE, content |-> <<>>]

\* file.readlines(): the lines with their line ends
RECURSIVE ReadLines(_)
ReadLines(content) ==
  IF content = <<>> THEN <<>>
  ELSE LET nl == IndexOf(content, <<"\n">>)
       IN IF nl = 0 THEN <<content>>
          ELSE <<SubSeq(content, 1, nl)>> \o ReadLines(SubSeq(content, nl + 1, Len(content)))

\* file.writelines(lines): the lines one after the other, nothing added
RECURSIVE WriteLines(_)
WriteLines(lines) == IF lines = <<>> THEN <<>> ELSE Head(lines) \o WriteLines(Tail(lines))

\* update_env_file (lines 83-97) on an existing .env: the content it leaves
update_env_file(content, namespace, logType) ==
  LET lines == ReadLines(content)
      filtered_lines == SelectSeq(lines, LAMBDA line : /\ ~StartsWith(line, NamespacePrefix)
                                                       /\ ~StartsWith(line, LogTypePrefix))
  IN WriteLines(filtered_lines \o << NamespacePrefix \o namespace \o <<"\n">>,
                                     LogTypePrefix \o logType \o <<"\n">> >>)

\* check_elasticsearch_settings: re.search(f"{var}=.+", content) for each required var
check_elasticsearch_settings(content) ==
  \A var \in required_vars :
    \E i \in DOMAIN content :
      /\ i + Len(var) + 1 <= Len(content)
      /\ SubSeq(content, i, i + Len(var)) = var \o <<"=">>
      /\ content[i + Len(var) + 1] # "\n"

\* lines 274-277
Namespace(logsdb, logType) ==
  (IF logsdb THEN <<"l", "o", "g", "s", "d", "b">> ELSE <<"d", "e", "f", "a", "u", "l", "t">>)
    \o <<"-">> \o logType

RestoreKeepsEnv(env, backup) == [env |-> env, backup |-> NoBackup]

\* restore_env_file: shutil.move(".env.backup", ".env") when the backup exists
restore_env_file(env, backup) ==
  IF backup.exists THEN [env |-> backup.content, backup |-> NoBackup]
  ELSE [env |-> env, backup |-> backup]

RestoreThenDown(started) == IF started THEN <<"restore", "down">> ELSE <<"restore">>

\* what is run under "if not args.no_cleanup:": restore_env_file alone before the
\* containers were started (lines 300-301 ... 380-381), "docker-compose down" and then
\* restore_env_file after that (lines 395-397, 403-405, 461-464) and on SIGINT (235-236)
CleanupCommands(started) == IF started THEN <<"down", "restore">> ELSE <<"restore">>

Call(cmd, ok) == [cmd |-> cmd, ok |-> ok]

InitRunner ==
  /\ no_cleanup \in BOOLEAN
  /\ log_type \in {<<"a", "l", "l">>, <<"m", "a", "c">>}
  /\ use_logsdb \in BOOLEAN
  /\ dotenv \in EnvFiles
  /\ dotenv_backup = NoBackup
  /\ saved_env = <<>>
  /\ calls = <<>>
  /\ rpc = "backup"
  /\ containers = "down"
  /\ env_backup = FALSE
  /\ env_restored = FALSE
  /\ downCalls = 0
  /\ printed_count = -1
  /\ final_count_output = <<>>
  /\ final_count = 0
  /\ test_result = "UNSET"
  /\ report = NoReport
  /\ rexit = -1

\* the statements under "if not args.no_cleanup:", after the calls made so far;
\* "docker-compose down" may fail, which run_command only reports
DoCleanup(before, cmds) ==
  IF no_cleanup
  THEN /\ calls' = before
       /\ UNCHANGED <<containers, env_backup, env_restored, downCalls, dotenv, dotenv_backup>>
  ELSE \E ok \in BOOLEAN :
         LET down == \E i \in DOMAIN cmds : cmds[i] = "down"
             restored == restore_env_file(dotenv, dotenv_backup)
         IN /\ calls' = before \o [i \in DOMAIN cmds |->
                                     Call(cmds[i], IF cmds[i] = "down" THEN ok
                                                   ELSE dotenv_backup.exists)]
            /\ downCalls' = downCalls + (IF down THEN 1 ELSE 0)
            /\ containers' = IF down /\ ok THEN "down" ELSE containers
            /\ dotenv' = restored.env
            /\ dotenv_backup' = restored.backup
            /\ env_restored' = (env_restored \/ env_backup)
            /\ env_backup' = FALSE

\* a failed step: the cleanup it has, then sys.exit(1)
FailWith(before, cmds) ==
  /\ DoCleanup(before, cmds)
  /\ rpc' = "failed"
  /\ rexit' = 1

\* line 266 with backup_env_file (lines 61-67); .env exists at this point
BackupEnv ==
  /\ rpc = "backup"
  /\ dotenv_backup' = [exists |-> TRUE, content |-> dotenv]
  /\ saved_env' = dotenv
  /\ env_backup' = TRUE
  /\ calls' = Append(calls, Call("backup", TRUE))
  /\ rpc' = "settings"
  /\ UNCHANGED <<fvars, wvars, mvars, dvars, svars, no_cleanup, containers, env_restored, downCalls,
                 printed_count, final_count_output, final_count, test_result, report, rexit,
                 log_type, use_logsdb, dotenv>>

\* lines 269-271: without the required settings the runner exits at once, the backup
\* staying where it is
CheckSettings ==
  /\ rpc = "settings"
  /\ LET ok == check_elasticsearch_settings(dotenv)
     IN /\ calls' = Append(calls, Call("check_settings", ok))
        /\ rpc' = IF ok THEN "update" ELSE "failed"
        /\ rexit' = IF ok THEN rexit ELSE 1
  /\ UNCHANGED <<fvars, wvars, mvars, dvars, svars, no_cleanup, containers, env_backup, env_restored,
                 downCalls, printed_count, final_count_output, final_count, test_result, report,
                 log_type, use_logsdb, dotenv, dotenv_backup, saved_env>>

\* line 281
UpdateEnv ==
  /\ rpc = "update"
  /\ dotenv' = update_env_file(dotenv, Namespace(use_logsdb, log_type), log_type)
  /\ calls' = Append(calls, Call("update_env", TRUE))
  /\ rpc' = "load"
  /\ UNCHANGED <<fvars, wvars, mvars, dvars, svars, no_cleanup, containers, env_backup, env_restored,
                 downCalls, printed_count, final_count_output, final_count, test_result, report,
                 rexit, log_type, use_logsdb, dotenv_backup, saved_env>>

\* lines 285-302: .env is read into os.environ; an exception ends the run
LoadDotenv ==
  /\ rpc = "load"
  /\ \E ok \in BOOLEAN :
       IF ok
       THEN /\ calls' = Append(calls, Call("load_env", TRUE))
            /\ rpc' = "setup"
            /\ UNCHANGED <<containers, env_backup, env_restored, downCalls, dotenv, dotenv_backup,
                           rexit>>
       ELSE FailWith(Append(calls, Call("load_env", FALSE)), CleanupCommands(FALSE))
  /\ UNCHANGED <<fvars, wvars, mvars, dvars, svars, no_cleanup, printed_count, final_count_output,
                 final_count, test_result, report, log_type, use_logsdb, saved_env>>

\* lines 311-321
RunSetupScript ==
  /\ rpc = "setup"
  /\ \E ok \in BOOLEAN :
       IF ok
       THEN /\ calls' = Append(calls, Call("setup.sh", TRUE))
            /\ rpc' = "venv"
            /\ UNCHANGED <<containers, env_backup, env_restored, downCalls, dotenv, dotenv_backup,
                           rexit>>
       ELSE FailWith(Append(calls, Call("setup.sh", FALSE)), CleanupCommands(FALSE))
  /\ UNCHANGED <<fvars, wvars, mvars, dvars, svars, no_cleanup, printed_count, final_count_output,
                 final_count, test_result, report, log_type, use_logsdb, saved_env>>

\* lines 324-328
ActivateVirtualenv ==
  /\ rpc = "venv"
  /\ \E ok \in BOOLEAN :
       IF ok
       THEN /\ calls' = Append(calls, Call("activate_virtualenv", TRUE))
            /\ rpc' = "datastream"
            /\ UNCHANGED <<containers, env_backup, env_restored, downCalls, dotenv, dotenv_backup,
                           rexit>>
       ELSE FailWith(Append(calls, Call("activate_virtualenv", FALSE)), CleanupCommands(FALSE))
  /\ UNCHANGED <<fvars, wvars, mvars, dvars, svars, no_cleanup, printed_count, final_count_output,
                 final_count, test_result, report, log_type, use_logsdb, saved_env>>

\* lines 331-368: setup_datastream.py has to be there, and to end with status 0
SetupDatastream ==
  /\ rpc = "datastream"
  /\ \E found \in BOOLEAN, ok \in BOOLEAN :
       IF found /\ ok
       THEN /\ calls' = Append(calls, Call("setup_datastream", TRUE))
            /\ rpc' = "up"
            /\ UNCHANGED <<containers, env_backup, env_restored, downCalls, dotenv, dotenv_backup,
                           rexit>>
       ELSE FailWith(IF found THEN Append(calls, Call("setup_datastream", FALSE)) ELSE calls,
                     CleanupCommands(FALSE))
  /\ UNCHANGED <<fvars, wvars, mvars, dvars, svars, no_cleanup, printed_count, final_count_output,
                 final_count, test_result, report, log_type, use_logsdb, saved_env>>

\* lines 374-386: "docker-compose --env-file .env up -d"; when it fails .env is restored
\* and nothing is taken down
StartContainers ==
  /\ rpc = "up"
  /\ \E ok \in BOOLEAN :
       IF ok
       THEN /\ calls' = Append(calls, Call("up", TRUE))
            /\ containers' = "up"
            /\ rpc' = "ps"
            /\ UNCHANGED <<env_backup, env_restored, downCalls, dotenv, dotenv_backup, rexit>>
       ELSE FailWith(Append(calls, Call("up", FALSE)), CleanupCommands(FALSE))
  /\ UNCHANGED <<fvars, wvars, mvars, dvars, svars, no_cleanup, printed_count, final_count_output,
                 final_count, test_result, report, log_type, use_logsdb, saved_env>>

\* lines 388-406: both "docker-compose ps | grep ..." are run, then logstash is
\* looked at first
CheckContainers ==
  /\ rpc = "ps"
  /\ \E logstash_running \in BOOLEAN, log_sender_running \in BOOLEAN :
       LET seen == calls \o << Call("ps_logstash", logstash_running),
                               Call("ps_log_sender", log_sender_running) >>
       IN IF logstash_running /\ log_sender_running
          THEN /\ calls' = seen
               /\ rpc' = "monitor"
               /\ UNCHANGED <<containers, env_backup, env_restored, downCalls, dotenv,
                              dotenv_backup, rexit>>
          ELSE FailWith(seen, CleanupCommands(TRUE))
  /\ UNCHANGED <<fvars, wvars, mvars, dvars, svars, no_cleanup, printed_count, final_count_output,
                 final_count, test_result, report, log_type, use_logsdb, saved_env>>

\* lines 432-437: the watch run; what run_command returns for it is dropped
Monitor ==
  /\ rpc = "monitor"
  /\ \E ok \in BOOLEAN : calls' = Append(calls, Call("watch", ok))
  /\ rpc' = "final"
  /\ UNCHANGED <<fvars, wvars, mvars, dvars, svars, no_cleanup, containers, env_backup, env_restored,
                 downCalls, printed_count, final_count_output, final_count, test_result, report,
                 rexit, log_type, use_logsdb, dotenv, dotenv_backup, saved_env>>

\* lines 439-447: the single count is run and its output parsed; the run fails (exit
\* status 1, run_command returns False) when it cannot reach Elasticsearch at all
FinalCheck ==
  /\ rpc = "final"
  /\ \E ran \in BOOLEAN, e \in ExistsOutcomes, q \in CountOutcomes :
       LET n == count_logs(e, q).value
           output == IF ran THEN SingleCountStdout(n) ELSE <<>>
       IN /\ printed_count' = IF ran THEN n ELSE -1
          /\ final_count_output' = output
          /\ final_count' = FinalCountOf(output)
          /\ calls' = Append(calls, Call("count", ran))
  /\ rpc' = "judge"
  /\ UNCHANGED <<fvars, wvars, mvars, dvars, svars, no_cleanup, containers, env_backup, env_restored,
                 downCalls, test_result, report, rexit, log_type, use_logsdb, dotenv,
                 dotenv_backup, saved_env>>

\* lines 449-455
Judge ==
  /\ rpc = "judge"
  /\ test_result' = Verdict(final_count)
  /\ rpc' = "report"
  /\ UNCHANGED <<fvars, wvars, mvars, dvars, svars, no_cleanup, containers, env_backup, env_restored,
                 downCalls, printed_count, final_count_output, final_count, report, rexit,
                 log_type, use_logsdb, dotenv, dotenv_backup, saved_env, calls>>

\* lines 457-458 with create_test_report (lines 157-208)
CreateReport ==
  /\ rpc = "report"
  /\ report' = [written |-> TRUE, result |-> test_result, count |-> final_count]
  /\ calls' = Append(calls, Call("report", TRUE))
  /\ rpc' = "cleanup"
  /\ UNCHANGED <<fvars, wvars, mvars, dvars, svars, no_cleanup, containers, env_backup, env_restored,
                 downCalls, printed_count, final_count_output, final_count, test_result, rexit,
                 log_type, use_logsdb, dotenv, dotenv_backup, saved_env>>

\* lines 460-466: "docker-compose down" and restore_env_file, unless --no-cleanup
Cleanup ==
  /\ rpc = "cleanup"
  /\ DoCleanup(calls, CleanupCommands(TRUE))
  /\ rpc' = "exit"
  /\ UNCHANGED <<fvars, wvars, mvars, dvars, svars, no_cleanup, printed_count, final_count_output,
                 final_count, test_result, report, rexit, log_type, use_logsdb, saved_env>>

\* line 471
Exit ==
  /\ rpc = "exit"
  /\ rexit' = ExitStatus(test_result)
  /\ rpc' = "exited"
  /\ UNCHANGED <<fvars, wvars, mvars, dvars, svars, no_cleanup, containers, env_backup, env_restored,
                 downCalls, printed_count, final_count_output, final_count, test_result, report,
                 log_type, use_logsdb, dotenv, dotenv_backup, saved_env, calls>>

Running ==
  {"backup", "settings", "update", "load", "setup", "venv", "datastream", "up", "ps",
   "monitor", "final", "judge", "report", "cleanup", "exit"}

\* lines 232-239: SIGINT at any point runs cleanup_handler, which takes the containers
\* down and restores .env whatever was started, and exits with status 1
CleanupHandler ==
  /\ rpc \in Running
  /\ DoCleanup(Append(calls, Call("SIGINT", TRUE)), CleanupCommands(TRUE))
  /\ rexit' = 1
  /\ rpc' = "interrupted"
  /\ UNCHANGED <<fvars, wvars, mvars, dvars, svars, no_cleanup, printed_count, final_count_output,
                 final_count, test_result, report, log_type, use_logsdb, saved_env>>

----------------------------------------------------------------------------
\* Specifications

\* the verifier is not running
WatchIdle ==
  /\ wargs = [interval |-> 1, no_change_timeout |-> 0, timeout |-> 0]
  /\ wpc = "idle"
  /\ now = 0
  /\ current_time = 0
  /\ lastIncrease = 0
  /\ start_time = 0
  /\ last_change_time = 0
  /\ prev_count = 0
  /\ count = 0
  /\ elapsed_seconds = 0
  /\ seconds_since_last_change = 0
  /\ stopReason = "none"
  /\ runLen = 0
  /\ lastPoll = "none"
  /\ observed = -1
  /\ out = -1
  /\ wexit = -1

\* the forwarder is not running
FwdIdle ==
  /\ args = [loop |-> FALSE, delete_after_send |-> FALSE, keep_given |-> FALSE,
             keep_logs |-> TRUE, protocol |-> <<"t", "c", "p">>, log_type |-> ALL]
  /\ delete_after_send = FALSE
  /\ fs = {}
  /\ scanOrder = <<>>
  /\ pc = "idle"
  /\ sock = "none"
  /\ connects = 0
  /\ log_files = <<>>
  /\ processed_files = <<>>
  /\ fileIdx = 0
  /\ lineIdx = 0
  /\ total_sent = 0
  /\ total_lines = 0
  /\ passNo = 0
  /\ visited = <<>>
  /\ scanned = {}
  /\ passLog = <<>>
  /\ attempts = [k \in {} |-> 0]
  /\ lastSend = "none"
  /\ removedByFwd = {}
  /\ removeFailed = {}
  /\ faults = [env |-> 0, io |-> 0, send |-> 0]
  /\ exitCode = -1

\* format_syslog_message is not being called on its own
FmtIdle ==
  /\ fmt_line = <<>>
  /\ fmt_host = <<>>
  /\ formatted_line = [kind |-> "idle", text |-> <<>>]

\* the downloader is not running
DlIdle ==
  /\ dargs = [log_type |-> "all", force_download |-> FALSE]
  /\ existing_logs = FALSE
  /\ dpc = "idle"
  /\ archive = [n \in ArchiveNames |-> "absent"]
  /\ urls = <<>>
  /\ urlIdx = 0
  /\ archive_path = <<>>
  /\ getCalls = [u \in AllUrls |-> 0]
  /\ outcome = [u \in AllUrls |-> "none"]
  /\ returned = [u \in AllUrls |-> "none"]
  /\ extractCalls = [u \in AllUrls |-> 0]
  /\ extracted = [u \in AllUrls |-> "none"]

\* the test runner is not running
RunnerIdle ==
  /\ no_cleanup = FALSE
  /\ rpc = "idle"
  /\ containers = "down"
  /\ env_backup = FALSE
  /\ env_restored = FALSE
  /\ downCalls = 0
  /\ printed_count = -1
  /\ final_count_output = <<>>
  /\ final_count = 0
  /\ test_result = "UNSET"
  /\ report = NoReport
  /\ rexit = -1
  /\ log_type = <<>>
  /\ use_logsdb = FALSE
  /\ dotenv = <<>>
  /\ dotenv_backup = NoBackup
  /\ saved_env = <<>>
  /\ calls = <<>>

\* neither setup_datastream.py nor test_count_logs.py is starting
StartupIdle ==
  /\ sprog = SetupProgram
  /\ senv = [ES_ENDPOINT |-> <<>>, ELASTIC_ADMIN_API_KEY |-> <<>>, ES_PORT |-> <<>>]
  /\ scli = [es_endpoint |-> <<>>, api_key |-> <<>>]
  /\ spc = "idle"
  /\ es_endpoint = <<>>
  /\ api_key = <<>>
  /\ client = "none"
  /\ requests = <<>>
  /\ serror = "none"
  /\ sexit = -1

Init == InitFwd /\ WatchIdle /\ FmtIdle /\ DlIdle /\ RunnerIdle /\ StartupIdle

Next ==
  \/ ConnectTcp
  \/ CreateUdp
  \/ Locate
  \/ StartPass
  \/ CountLines
  \/ OpenStream
  \/ SkipBlankLine
  \/ SendLine
  \/ ReadError
  \/ FileDone
  \/ PassDone
  \/ EndPass
  \/ Finish
  \/ EnvRemove

Spec == Init /\ [][Next]_vars

\* the forwarder started without --loop; its own steps are taken as long as one is
\* possible (main is sequential code, every call of which returns)
InitNoLoop == Init /\ ~args.loop

FairSpec == InitNoLoop /\ [][Next]_vars /\ WF_vars(FwdStep)

InitW == InitWatch /\ FwdIdle /\ FmtIdle /\ DlIdle /\ RunnerIdle /\ StartupIdle

NextW ==
  \/ Tick
  \/ Sleep
  \/ Interrupt

SpecWatch == InitW /\ [][NextW]_vars

\* format_syslog_message called once on any line and host of the bounded sets
InitFormat ==
  /\ fmt_line \in FmtLines
  /\ fmt_host \in FmtHosts
  /\ formatted_line = [kind |-> "pending", text |-> <<>>]
  /\ FwdIdle
  /\ WatchIdle
  /\ DlIdle
  /\ RunnerIdle
  /\ StartupIdle

NextFormat ==
  \/ Format

SpecFormat == InitFormat /\ [][NextFormat]_vars

\* the downloader started from its command line
InitDl == InitDownload /\ FwdIdle /\ WatchIdle /\ FmtIdle /\ RunnerIdle /\ StartupIdle

NextDl ==
  \/ SelectLogs
  \/ DownloadFile
  \/ ExtractTarfile
  \/ ListOutput

SpecDownload == InitDl /\ [][NextDl]_vars

\* the test runner from the backup of .env on, with any .env of the bounded set
InitR == InitRunner /\ FwdIdle /\ WatchIdle /\ FmtIdle /\ DlIdle /\ StartupIdle

NextR ==
  \/ BackupEnv
  \/ CheckSettings
  \/ UpdateEnv
  \/ LoadDotenv
  \/ RunSetupScript
  \/ ActivateVirtualenv
  \/ SetupDatastream
  \/ StartContainers
  \/ CheckContainers
  \/ Monitor
  \/ FinalCheck
  \/ Judge
  \/ CreateReport
  \/ Cleanup
  \/ Exit
  \/ CleanupHandler

SpecRunner == InitR /\ [][NextR]_vars

\* setup_datastream.py or test_count_logs.py started with any environment and arguments
InitS == InitStartup /\ FwdIdle /\ WatchIdle /\ FmtIdle /\ DlIdle /\ RunnerIdle

NextS ==
  \/ LoadEnv
  \/ OverrideFromArgs
  \/ CreateEsClient
  \/ DeleteDatastream
  \/ CreateIndexTemplate
  \/ FirstQuery

SpecStartup == InitS /\ [][NextS]_vars

----------------------------------------------------------------------------
\* Helpers of the properties

\* the line numbers of file p in a log of send_log calls, in the order of the calls
RECURSIVE LinesOf(_, _)
LinesOf(log, p) ==
  IF log = <<>> THEN <<>>
  ELSE (IF Head(log).file = p THEN <<Head(log).line>> ELSE <<>>) \o LinesOf(Tail(log), p)

\* the lines k, from <= k <= to, of file p that are not blank, in file order
RECURSIVE SendableLines(_, _, _)
SendableLines(p, from, to) ==
  IF from > to THEN <<>>
  ELSE (IF IsSent(p, from) THEN <<[file |-> p, line |-> from]>> ELSE <<>>)
       \o SendableLines(p, from + 1, to)

\* every non-blank line of every file of the list, file by file
RECURSIVE AllSendable(_)
AllSendable(files) ==
  IF files = <<>> THEN <<>>
  ELSE SendableLines(Head(files), 1, Len(FileContent(Head(files)))) \o AllSendable(Tail(files))

InPass == pc \in {"file", "reopen", "stream", "endpass"}

\* the deletion policy as the command line asks for it
DeletionRequested == args.delete_after_send /\ ~args.keep_given

----------------------------------------------------------------------------
\* C1: within one pass every file of the list is visited at most once (also when
\* several search rules of find_log_files find the same file), the send_log calls
\* for a file are exactly its non-blank lines read so far, in file order, and no
\* line is passed to send_log twice in the pass.
C1_OncePerPassInOrder ==
  /\ NoDup(log_files)
  /\ NoDup(visited)
  /\ NoDup(passLog)
  /\ \A i, j \in DOMAIN passLog :
       i < j /\ passLog[i].file = passLog[j].file => passLog[i].line < passLog[j].line
  /\ pc = "stream" =>
       LinesOf(passLog, CurrentFile) =
         [k \in DOMAIN SendableLines(CurrentFile, 1, lineIdx - 1) |->
            SendableLines(CurrentFile, 1, lineIdx - 1)[k].line]

\* a pass under log type 'all' over a tree that the recursive and the flat glob
\* both list, with two lines of one file sent
C1_Witness ==
  /\ pc = "endpass"
  /\ Lower(args.log_type) = ALL
  /\ Len(visited) >= 3
  /\ P_sub \in Range(visited)
  /\ Len(LinesOf(passLog, P_li)) = 2

\* C2 as claimed: over the whole run no line is passed to send_log more than once,
\* whatever the loop and deletion settings.
C2_AtMostOnceEver == \A k \in DOMAIN attempts : attempts[k] <= 1

\* C2 as amended: without --loop a line is passed to send_log at most once in the
\* run; with --loop at most once per pass, every pass sending the listed files again.
C2_AtMostOncePerPass ==
  \A k \in DOMAIN attempts : attempts[k] <= (IF args.loop THEN passNo ELSE 1)

\* a finished run without --loop in which a send failed and was not repeated
C2_Witness ==
  /\ pc = "done"
  /\ ~args.loop
  /\ faults.send = 1
  /\ Len(passLog) >= 2
  /\ \A k \in DOMAIN attempts : attempts[k] = 1

\* C3, the step: a send_log call that returns False leaves total_sent as it was,
\* keeps main in the read loop of the same file, moves to the next line and does
\* not end the run.
C3_FailedSendStep ==
  (Len(passLog') = Len(passLog) + 1 /\ lastSend' = "fail") =>
     /\ total_sent' = total_sent
     /\ pc' = "stream"
     /\ fileIdx' = fileIdx
     /\ lineIdx' = lineIdx + 1
     /\ log_files' = log_files
     /\ exitCode' = -1

\* C3, the pass: when nothing but sends failed, the first pass still visits every
\* file and calls send_log once for every non-blank line, and total_sent counts the
\* calls that returned True.
C3_PassCompletes ==
  (pc = "endpass" /\ passNo = 1 /\ faults.env = 0 /\ faults.io = 0) =>
     /\ visited = log_files
     /\ passLog = AllSendable(log_files)
     /\ total_sent = Len(passLog) - faults.send

\* C3: a failed send never aborts the run, is not counted and not retried, and the
\* forwarder goes on with the next line and the remaining files.
C3_FailedSendGoesOn == [][C3_FailedSendStep]_vars /\ []C3_PassCompletes

\* a run that ended normally after a failed send that was followed by other sends
C3_Witness ==
  /\ pc = "done"
  /\ exitCode = 0
  /\ faults.send = 1
  /\ lastSend = "ok"
  /\ total_sent = Len(passLog) - 1
  /\ Len(visited) >= 2

C5_RelistsAfterEveryPass ==
  [][(pc = "endpass" /\ pc' # "endpass" /\ args.loop) =>
       /\ log_files' = SelectSeq(log_files, LAMBDA f : f \in fs')
       /\ (pc' = "close") = (log_files' = <<>>)
       /\ (pc' = "pass") = (log_files' # <<>>)]_vars

\* C5 as amended: with --loop, the list is re-listed only at the end of a pass with the
\* effective deletion policy on and a file processed; then the run ends if no listed
\* file remains and else passes over the remaining files. After any other pass the
\* next pass runs over the unchanged list, vanished files included, and the run goes on.
C5_RelistsOnlyAfterDeletion ==
  [][(pc = "endpass" /\ pc' # "endpass" /\ args.loop) =>
       IF delete_after_send /\ processed_files # <<>>
       THEN /\ log_files' = SelectSeq(log_files, LAMBDA f : f \in fs')
            /\ (pc' = "close") = (log_files' = <<>>)
            /\ (pc' = "pass") = (log_files' # <<>>)
       ELSE /\ log_files' = log_files
            /\ pc' = "pass"]_vars

\* a second pass running over a list none of whose files exists any more
C5_Witness ==
  /\ args.loop
  /\ passNo = 2
  /\ pc = "endpass"
  /\ log_files # <<>>
  /\ \A i \in DOMAIN log_files : log_files[i] \notin fs

\* C6: with the deletion policy asked for, a file is in the processed list exactly when
\* it was read to its end without error in this pass (all-blank files included), the
\* forwarder removes no file while the pass runs, and after the pass every such file
\* is deleted and the processed list is empty.
C6_ProcessedThenDeleted ==
  DeletionRequested =>
     /\ InPass => Range(processed_files) = scanned
     /\ pc \in {"file", "reopen", "stream"} /\ passNo = 1 => removedByFwd = {}
     /\ pc \in {"close", "done"} => scanned \cap fs = {} /\ processed_files = <<>>

\* C7: --delete-after-send without --keep-logs gives the effective deletion policy,
\* and only that does.
C7_DeleteFlagEnablesPolicy ==
  pc \in {"locate", "pass", "file", "reopen", "stream", "endpass", "close", "done"} =>
     (delete_after_send = (args.delete_after_send /\ ~args.keep_given))

\* C8: over TCP there is one sock.connect per run and never a second one; when it
\* fails the run ends with exit status 1 with no file located, opened or sent. UDP
\* never connects.
C8_OneConnect ==
  /\ connects <= 1
  /\ IsTcp(args.protocol) /\ pc # "connect" => connects = 1
  /\ ~IsTcp(args.protocol) => connects = 0
  /\ lastSend = "fail" => connects = (IF IsTcp(args.protocol) THEN 1 ELSE 0)
  /\ connects = 1 /\ sock = "none" =>
       /\ pc = "exit"
       /\ exitCode = 1
       /\ log_files = <<>>
       /\ visited = <<>>
       /\ passNo = 0
       /\ DOMAIN attempts = {}

\* the connect failed although there were files to send
C8_Witness ==
  /\ pc = "exit"
  /\ connects = 1
  /\ sock = "none"
  /\ exitCode = 1
  /\ find_log_files(fs, scanOrder, args.log_type) # <<>>

----------------------------------------------------------------------------
\* The watch loop

\* the no-change condition, from the clock readings themselves
NoChangeDue ==
  count > 0 /\ current_time - lastIncrease >= wargs.no_change_timeout * Res

\* C9 as claimed: for every timeout value, an iteration that read an elapsed time of
\* timeout seconds or more ends the watch.
C9_BackstopForEveryTimeout ==
  wpc = "sleep" => current_time - start_time < wargs.timeout * Res

\* C9 as amended: for every timeout value above 0 an iteration that read an elapsed
\* time of timeout seconds or more ends the watch, whatever the counts; a timeout of
\* 0 (or less) switches the absolute timeout off.
C9_BackstopForPositiveTimeout ==
  /\ wpc = "sleep" /\ wargs.timeout > 0 => current_time - start_time < wargs.timeout * Res
  /\ stopReason = "timeout" => wargs.timeout > 0 /\ current_time - start_time >= wargs.timeout * Res
  /\ wargs.timeout <= 0 /\ wpc = "stopped" => stopReason = "nochange"

\* the count stayed 0 and the watch ended at the first iteration past the timeout
C9_Witness ==
  /\ wpc = "stopped"
  /\ stopReason = "timeout"
  /\ count = 0
  /\ lastIncrease = start_time
  /\ wargs.timeout = 3
  /\ elapsed_seconds >= 3

\* C10: an iteration stops by the no-change policy exactly when its count is above 0
\* and no_change_timeout seconds have passed since the last iteration whose count
\* exceeded the one before (an equal or lower count does not restart the timer);
\* never at count 0. With no_change_timeout 10 and interval 2, the sixth iteration
\* in a row that reads 50 is not survived: the watch has stopped, its count 50.
C10_NoChangePolicy ==
  /\ wpc \in {"sleep", "stopped"} => ((stopReason = "nochange") = NoChangeDue)
  /\ stopReason = "nochange" => wpc = "stopped" /\ count > 0
  /\ wargs.no_change_timeout = 10 /\ wargs.interval = 2 /\ count = 50 /\ runLen >= 6
       => wpc = "stopped"

\* the plateau of the claim: six polls of 50 in a row, stopped by the no-change policy
C10_Witness ==
  /\ wargs.no_change_timeout = 10
  /\ wargs.interval = 2
  /\ count = 50
  /\ runLen = 6
  /\ wpc = "stopped"
  /\ stopReason = "nochange"

----------------------------------------------------------------------------
\* The located files, blank lines and the total of a pass

\* C15 as claimed: no two located files have the same basename ignoring case.
C15_OnePerCaselessBasename ==
  \A i, j \in DOMAIN log_files :
    i # j => Lower(log_files[i].name) # Lower(log_files[j].name)

\* a line of nothing but whitespace
IsBlank(line) == \A i \in DOMAIN line : IsSpace(line[i])

AtBlankLine ==
  /\ pc = "stream"
  /\ lineIdx <= Len(FileContent(CurrentFile))
  /\ IsBlank(FileContent(CurrentFile)[lineIdx])

C16_BlankStep ==
  AtBlankLine => passLog' = passLog /\ attempts' = attempts /\ total_sent' = total_sent

C16_NoBlankSent ==
  /\ \A p \in AllPaths : \A k \in DOMAIN FileContent(p) :
        IsBlank(FileContent(p)[k])
          => /\ format_syslog_message(FileContent(p)[k], HostnameOf(p)).kind = "none"
             /\ format_syslog_message(Strip(FileContent(p)[k]), HostnameOf(p)).kind = "none"
  /\ \A i \in DOMAIN passLog : ~IsBlank(FileContent(passLog[i].file)[passLog[i].line])
  /\ \A key \in DOMAIN attempts : ~IsBlank(FileContent(key.file)[key.line])

\* C16: for a blank or whitespace-only line format_syslog_message returns nothing, and
\* the step of the forwarder over such a line calls send_log for nothing and leaves the
\* sent counter alone.
C16_BlankLineSendsNothing == [][C16_BlankStep]_vars /\ []C16_NoBlankSent

\* the forwarder has just gone over a whitespace-only line, after having sent a line
C16_Witness ==
  /\ pc = "stream"
  /\ lineIdx > 1
  /\ FileContent(CurrentFile)[lineIdx - 1] # <<>>
  /\ IsBlank(FileContent(CurrentFile)[lineIdx - 1])
  /\ total_sent = 1
  /\ total_lines = 2
  /\ Len(passLog) = 1

\* C18 as claimed: the total of a pass that read every file to its end is the number
\* of non-blank lines of these files.
C18_TotalIsNonBlankLines ==
  pc = "endpass" /\ scanned = Range(log_files) => total_lines = SumNonBlank(log_files)

----------------------------------------------------------------------------
\* format_syslog_message on its own

\* first character alphabetic and a space among the first six characters
LooksLikeSyslog(l) ==
  /\ l # <<>>
  /\ l[1] \in {"a", "A", "J", "n"}
  /\ \E i \in 1..6 : i <= Len(l) /\ l[i] = " "

Called == formatted_line.kind \notin {"pending", "idle"}

----------------------------------------------------------------------------
\* The test runner

\* the verdict, the exit status and the report of a run that reached line 471
VerdictByCount ==
  /\ (test_result = "PASSED") = (final_count > 0)
  /\ (rexit = 0) = (final_count > 0)
  /\ test_result \in {"PASSED", "FAILED"}
  /\ final_count = (IF printed_count > 0 THEN printed_count ELSE 0)
  /\ final_count = 0 => test_result = "FAILED" /\ rexit # 0
  /\ report = [written |-> TRUE, result |-> test_result, count |-> final_count]

\* C14 as claimed: PASSED and exit status 0 exactly when the final count is above 0,
\* FAILED and a non-zero status otherwise; in either case the report is written and
\* the cleanup (docker-compose down, .env restored) is done before the exit.
C14_VerdictReportCleanup ==
  rpc = "exited" => VerdictByCount /\ downCalls = 1 /\ env_restored

\* C14 as amended: the same, the cleanup being done unless --no-cleanup was given, in
\* which case nothing is taken down or restored.
C14_VerdictReportCleanupUnlessDisabled ==
  rpc = "exited"
    => /\ VerdictByCount
       /\ ~no_cleanup => downCalls = 1 /\ env_restored /\ ~env_backup
       /\ no_cleanup => downCalls = 0 /\ ~env_restored /\ env_backup /\ containers = "up"

\* the final count could not be read: FAILED, status 1, report written, cleanup done
C14_Witness ==
  /\ rpc = "exited"
  /\ printed_count = -1
  /\ final_count = 0
  /\ test_result = "FAILED"
  /\ rexit = 1
  /\ report.written
  /\ ~no_cleanup
  /\ downCalls = 1
  /\ env_restored

----------------------------------------------------------------------------
\* The downloader

C19_DownloadStep ==
  dpc = "download" /\ urlIdx <= Len(urls)
    => LET url == urls[urlIdx]
       IN IF archive[Filename(url)] # "absent"
          THEN /\ getCalls' = getCalls
               /\ archive_path' = Filename(url)
               /\ returned'[url] = "path"
          ELSE getCalls' = [getCalls EXCEPT ![url] = 1]

C19_AtMostOneRequest ==
  \A u \in AllUrls :
    /\ getCalls[u] <= 1
    /\ outcome[u] = "cached" => getCalls[u] = 0 /\ returned[u] = "path"
    /\ outcome[u] \in Responses => getCalls[u] = 1

\* C19: download_file sends no request and returns the path when a file of the
\* archive's exact name is in the archive directory; otherwise it sends exactly one
\* request, whatever its outcome.
C19_CachedOrOneRequest == [][C19_DownloadStep]_vars /\ []C19_AtMostOneRequest

\* one archive was found in the archive directory and not requested, another, of which
\* only a namesake in other case was there, was requested once and that request failed
C19_Witness ==
  /\ dpc = "done"
  /\ archive[Decoy] = "complete"
  /\ getCalls[Url("L")] = 1
  /\ outcome[Url("L")] = "conn_error"
  /\ outcome[Url("M")] = "cached"
  /\ getCalls[Url("M")] = 0
  /\ extracted[Url("M")] = "full"

\* C20 as claimed: after a network failure or an HTTP error response download_file has
\* raised: it returned no archive path, nothing is extracted, and there was one request.
C20_FailedDownloadRaises ==
  \A u \in AllUrls :
    outcome[u] \in {"http_error", "conn_error", "broken"}
      => returned[u] = "raised" /\ extractCalls[u] = 0 /\ getCalls[u] = 1

----------------------------------------------------------------------------
\* Target count, interrupt and poll errors of the watch loop

\* C11 as claimed: the watch stops at the first iteration whose count has reached the
\* expected count (the non-blank lines of the files to be forwarded): no iteration
\* that read such a count goes on to sleep.
C11_StopsAtTargetCount ==
  wpc = "sleep" => count < ExpectedCount

\* C12 as claimed: an interrupt at any point of the watch loop ends the verifier without
\* a failure exit status, and the last count it observed is the one it reported.
C12_InterruptReportsLastCount ==
  wpc = "interrupted" => wexit = 0 /\ (observed # -1 => out = observed)

\* C13: count_logs hands no error to the watch loop: a poll whose stream is missing, or
\* whose existence check or count query raised, is observed as count 0, and the watch
\* never ends with the failure exit status because of it.
C13_PollErrorIsZero ==
  /\ lastPoll \in {"missing", "error"} => observed = 0
  /\ lastPoll \in {"missing", "error"} /\ wpc # "interrupted"
       => count = 0 /\ out = 0
  /\ wpc # "failed"
  /\ wexit # 1

\* a poll failed after documents had been counted, and the watch goes on with count 0
C13_Witness ==
  /\ lastPoll = "error"
  /\ wpc = "sleep"
  /\ count = 0
  /\ runLen = 1
  /\ lastIncrease > start_time

----------------------------------------------------------------------------
\* File errors, deletion, an empty file list and the counters of the forwarder

\* a step in which the open or the read of the current file raises
FileErrorStep ==
  /\ pc \in {"file", "reopen", "stream"}
  /\ fileIdx <= Len(log_files)
  /\ \/ faults'.io = faults.io + 1
     \/ pc \in {"file", "reopen"} /\ CurrentFile \notin fs /\ fs' = fs

C23_SkipStep ==
  FileErrorStep
    => /\ pc' = "file"
       /\ fileIdx' = fileIdx + 1
       /\ processed_files' = processed_files
       /\ removedByFwd' = removedByFwd
       /\ log_files' = log_files
       /\ exitCode' = -1
       /\ CurrentFile \notin scanned'

\* whatever the forwarder removes was read to its end in the pass just made
C23_RemoveStep == (removedByFwd' \ removedByFwd) \subseteq scanned

C23_FailedNotProcessed ==
  /\ Range(processed_files) \subseteq scanned
  /\ Len(visited) <= Len(log_files) /\ visited = SubSeq(log_files, 1, Len(visited))
  /\ pc = "endpass" => visited = log_files

\* C23: a file whose open or read raises is left at once: the run goes on with the
\* next file of the list, every file of the list is still visited in the pass, and
\* the failed file is neither put on the processed list nor removed.
C23_FailedFileIsSkipped == [][C23_SkipStep /\ C23_RemoveStep]_vars /\ []C23_FailedNotProcessed

\* the first file of the pass failed and the second was read to its end
C23_Witness ==
  /\ pc = "endpass"
  /\ faults.io = 1
  /\ Len(visited) >= 2
  /\ visited[1] \in fs
  /\ visited[1] \notin scanned
  /\ visited[2] \in scanned
  /\ total_sent > 0

\* C24 as claimed: with the deletion policy asked for, once the pass and its deletion
\* are over, every file read to its end is gone (deleted now, or missing already),
\* save those whose removal raised, and the run was not aborted.
C24_DeletionToleratesMissing ==
  DeletionRequested /\ pc \in {"close", "done"}
    => /\ exitCode \in {-1, 0}
       /\ \A f \in scanned : f \notin fs \/ f \in removeFailed

C25_EmptyStep ==
  pc = "locate" /\ pc' # "locate" /\ find_log_files(fs, scanOrder, args.log_type) = <<>>
    => pc' = "exit" /\ exitCode' = 1 /\ log_files' = <<>> /\ passNo' = 0

C25_NothingDone ==
  pc = "exit" /\ sock = "open"
    => /\ log_files = <<>>
       /\ exitCode = 1
       /\ passNo = 0
       /\ visited = <<>>
       /\ DOMAIN attempts = {}
       /\ total_sent = 0
       /\ removedByFwd = {}

\* C25: when find_log_files finds nothing it returns the empty list, and main exits
\* with status 1 before its pass loop: no pass, no send_log call, no file removed.
C25_NoFilesExitsEarly == [][C25_EmptyStep]_vars /\ []C25_NothingDone

\* log files exist, none of the requested type
C25_Witness ==
  /\ pc = "exit"
  /\ sock = "open"
  /\ exitCode = 1
  /\ fs # {}
  /\ log_files = <<>>
  /\ args.log_type # ALL

\* the non-blank lines read so far in the pass: one send_log call each
NonBlankRead == Len(passLog)

C30_CounterStep ==
  /\ total_sent' > total_sent
       => total_sent' = total_sent + 1 /\ lastSend' = "ok" /\ Len(passLog') = Len(passLog) + 1
  /\ pc = "pass" /\ pc' # "pass" => total_sent' = 0 /\ total_lines' = 0 /\ passLog' = <<>>

C30_CounterOrder ==
  /\ total_sent <= NonBlankRead
  /\ NonBlankRead <= total_lines

\* C30: in a pass, total_sent <= non-blank lines read so far <= total_lines; both
\* counters restart at 0 with each pass, and total_sent grows by one only in a step
\* whose send_log call returned True.
C30_CountersBounded == [][C30_CounterStep]_vars /\ []C30_CounterOrder

\* second pass under way, after a failed send and a blank line
C30_Witness ==
  /\ passNo = 2
  /\ pc = "stream"
  /\ faults.send = 1
  /\ lastSend = "fail"
  /\ total_sent < NonBlankRead
  /\ NonBlankRead < total_lines

----------------------------------------------------------------------------
\* Forced downloads and failures in the downloader

\* C21 as claimed: with --force-download every selected archive that was handled was
\* requested from the server, an archive file of that name being there or not.
C21_ForceDownloadsAgain ==
  \A u \in AllUrls :
    dargs.force_download /\ outcome[u] # "none" => outcome[u] # "cached" /\ getCalls[u] = 1

\* the download or the extraction of the current archive fails in this step
ArchiveFailsStep ==
  \/ dpc = "download" /\ dpc' = "download" /\ urlIdx <= Len(urls) /\ returned'[urls[urlIdx]] = "raised"
  \/ dpc = "extract" /\ extracted'[urls[urlIdx]] # "full"

C26_FailureStep ==
  ArchiveFailsStep => dpc' = "download" /\ urlIdx' = urlIdx + 1 /\ urls' = urls

\* every archive before the current one was attempted: downloaded or reused, and
\* extracted once when download_file returned a path
C26_EarlierAttempted ==
  /\ dpc \in {"download", "extract", "done"} /\ urls # <<>>
       => /\ urlIdx <= Len(urls) + 1
          /\ \A i \in DOMAIN urls :
               i < urlIdx => /\ outcome[urls[i]] # "none"
                             /\ returned[urls[i]] = "path" => extractCalls[urls[i]] = 1
                             /\ returned[urls[i]] = "raised" => extractCalls[urls[i]] = 0
  /\ dpc = "done" /\ urls # <<>> => urlIdx = Len(urls) + 1

\* C26: a failed download or extraction only ends the handling of its own archive: the
\* loop goes on with the next selected archive, and when the run reaches its final
\* listing every selected archive has been attempted.
C26_FailureDoesNotBlockOthers == [][C26_FailureStep]_vars /\ []C26_EarlierAttempted

\* of five selected archives the first could not be downloaded, the second was an error
\* body that failed to extract, and the later ones were still downloaded and extracted
C26_Witness ==
  /\ dpc = "done"
  /\ Len(urls) = 5
  /\ outcome[urls[1]] = "conn_error"
  /\ outcome[urls[2]] = "http_error" /\ extractCalls[urls[2]] = 1 /\ extracted[urls[2]] = "none"
  /\ outcome[urls[3]] = "ok" /\ extracted[urls[3]] = "full"
  /\ outcome[urls[5]] = "cached" /\ extractCalls[urls[5]] = 1

----------------------------------------------------------------------------
\* Credentials and endpoint URL at the start of the setup and of the verifier

\* the URL begins with a scheme, a host and a port: http(s)://, at least one character
\* up to the first colon, then a digit
HasSchemeHostPort(url) ==
  \E n \in {Len(HTTP), Len(HTTPS)}, c \in DOMAIN url :
    /\ n < Len(url)
    /\ SubSeq(url, 1, n) \in {HTTP, HTTPS}
    /\ c > n + 1
    /\ url[c] = ":"
    /\ \A k \in (n + 1)..(c - 1) : url[k] # ":"
    /\ c < Len(url)
    /\ IsDigit(url[c + 1])

CredentialsMissing == senv.ES_ENDPOINT = <<>> \/ senv.ELASTIC_ADMIN_API_KEY = <<>>

C22_AbortStep ==
  /\ spc = "load" /\ CredentialsMissing
       => spc' = "exited" /\ sexit' = 1 /\ requests' = <<>>
  /\ spc = "client" /\ ~HasSchemeHostPort(es_endpoint)
       => spc' = "exited" /\ sexit' = 1 /\ requests' = <<>>

C22_NoRequestUnlessValid ==
  /\ requests # <<>> \/ spc \in {"run", "template", "querying"}
       => ~CredentialsMissing /\ HasSchemeHostPort(es_endpoint) /\ api_key # <<>>
  /\ serror \in {"missing_credentials", "invalid_url", "rejected_url"}
       => spc = "exited" /\ sexit = 1 /\ requests = <<>>
  /\ spc = "exited" /\ CredentialsMissing => serror = "missing_credentials"
  /\ sexit = 0 => serror = "none"

\* C22: a missing endpoint or API key, or an endpoint URL without scheme, host and port,
\* ends the run with exit status 1 in the very step that finds it, and no request (no
\* ping, no deletion, no template, no count) is sent before credentials and URL passed.
C22_BadSettingsAbortBeforeRequests == [][C22_AbortStep]_vars /\ []C22_NoRequestUnlessValid

\* the data-stream setup found credentials, built an endpoint with the port "x" of
\* ES_PORT and stopped on it
C22_Witness ==
  /\ sprog = SetupProgram
  /\ spc = "exited"
  /\ sexit = 1
  /\ serror = "invalid_url"
  /\ senv.ES_PORT = <<"x">>
  /\ scli.es_endpoint = <<>>
  /\ ~CredentialsMissing
  /\ requests = <<>>

----------------------------------------------------------------------------
\* The .env file and the order of the steps of the test runner

Ended == rpc \in {"failed", "interrupted", "exited"}

WasCalled(cmd) == \E i \in DOMAIN calls : calls[i].cmd = cmd

Succeeded(cmd) == \E i \in DOMAIN calls : calls[i].cmd = cmd /\ calls[i].ok

\* when the run ends, restore_env_file is the last thing it has called
C27_ExitStep ==
  ~Ended /\ Ended' /\ ~no_cleanup /\ WasCalled("update_env")
    => /\ calls' # <<>>
       /\ calls'[Len(calls')].cmd = "restore"

C27_EnvAsSaved ==
  Ended /\ ~no_cleanup /\ WasCalled("update_env")
    => /\ dotenv = saved_env
       /\ ~dotenv_backup.exists
       /\ WasCalled("restore")

\* C27: without --no-cleanup, every way out of the runner after update_env_file (a
\* failed step, SIGINT, the normal end) has restore_env_file as its last call, and
\* the run ends with .env as it was when the backup was taken and no .env.backup.
C27_EnvRestoredOnEveryExit == [][C27_ExitStep]_vars /\ []C27_EnvAsSaved

\* the data-stream setup failed after .env had been rewritten, and .env is back
C27_Witness ==
  /\ rpc = "failed"
  /\ ~no_cleanup
  /\ WasCalled("update_env")
  /\ WasCalled("setup_datastream")
  /\ ~Succeeded("setup_datastream")
  /\ saved_env = EnvSettingsFirst
  /\ dotenv = saved_env
  /\ dotenv # update_env_file(saved_env, Namespace(use_logsdb, log_type), log_type)
  /\ ~dotenv_backup.exists

\* call i was made after successful calls of a, b and c, in this order
After3(i, a, b, c) ==
  \E x, y, z \in 1..(i - 1) :
    /\ x < y /\ y < z
    /\ calls[x] = Call(a, TRUE) /\ calls[y] = Call(b, TRUE) /\ calls[z] = Call(c, TRUE)

C28_Order ==
  /\ \A i \in DOMAIN calls :
       calls[i].cmd = "up" => After3(i, "setup.sh", "activate_virtualenv", "setup_datastream")
  /\ \A i \in DOMAIN calls :
       calls[i].cmd = "watch" => After3(i, "up", "ps_logstash", "ps_log_sender")
  /\ Ended /\ ~no_cleanup /\ Succeeded("up")
       => \E u, d, r \in DOMAIN calls :
            /\ u < d /\ d < r
            /\ calls[u] = Call("up", TRUE)
            /\ calls[d].cmd = "down"
            /\ calls[r].cmd = "restore"
            /\ \A k \in DOMAIN calls : k > u /\ calls[k].cmd = "restore" => k >= r

\* C28: "docker-compose up" is run only after setup.sh, the activation of the virtual
\* environment and setup_datastream.py succeeded, in this order; the watch is run only
\* after the start and after both "docker-compose ps" checks found their container;
\* and a run that ends after a successful start, without --no-cleanup, has called
\* "docker-compose down" before its first restore_env_file.
C28_StepOrder == []C28_Order

\* the log-sender container was not found: down, then restore, then exit
C28_Witness ==
  /\ rpc = "failed"
  /\ ~no_cleanup
  /\ Succeeded("up")
  /\ Succeeded("ps_logstash")
  /\ WasCalled("ps_log_sender") /\ ~Succeeded("ps_log_sender")
  /\ Len(calls) >= 2
  /\ calls[Len(calls) - 1].cmd = "down"
  /\ calls[Len(calls)].cmd = "restore"
  /\ ~WasCalled("watch")

\* the lines of the file that start with the prefix
LinesWith(content, prefix) == SelectSeq(ReadLines(content), LAMBDA line : StartsWith(line, prefix))

OtherLines(content) ==
  SelectSeq(ReadLines(content), LAMBDA line : /\ ~StartsWith(line, NamespacePrefix)
                                              /\ ~StartsWith(line, LogTypePrefix))

\* C29 as claimed: right after update_env_file, .env has exactly one line starting with
\* ES_DATA_STREAM_NAMESPACE= and one starting with LOG_TYPE=, with the new values, its
\* other lines are the other lines of the original in their order, and a second
\* update with the same values would leave the file as it is.
C29_UpdateSetsBothOnce ==
  rpc = "load"
    => LET namespace == Namespace(use_logsdb, log_type)
       IN /\ LinesWith(dotenv, NamespacePrefix) = <<NamespacePrefix \o namespace \o <<"\n">> >>
          /\ LinesWith(dotenv, LogTypePrefix) = <<LogTypePrefix \o log_type \o <<"\n">> >>
          /\ OtherLines(dotenv) = OtherLines(saved_env)
          /\ update_env_file(dotenv, namespace, log_type) = dotenv

====
